---- MODULE Spec2Model ----
(***************************************************************************)
(* Session engine of the wagering bot: the darts and football duels        *)
(* (src/darts.py, src/football.py) as they are dispatched by main.py.      *)
(*                                                                         *)
(* Every incoming update is its own asyncio task (main.py 632-636), and a  *)
(* handler runs without interruption between two awaits.  An action of     *)
(* this module is one such segment of a handler: the code from one await   *)
(* to the next.  `tasks' holds the updates in flight with their position   *)
(* (pc) and their local variables.  `limits' holds what the environment    *)
(* does in a behaviour: how many updates it lets overlap (1 in Spec, where *)
(* the updates are processed one at a time; MaxTasks otherwise), how many  *)
(* messages with buttons the chat comes to hold and how many sessions are  *)
(* ever registered.                                                        *)
(*                                                                         *)
(* One chat is modelled; money is counted in cents.                        *)
(***************************************************************************)
EXTENDS Integers, Sequences, FiniteSets, TLC

\* ---------------------------------------------------------------- bounds
MaxMsg == 7          \* messages with buttons the chat may hold under Spec
MaxNewMsg == 3       \* messages with buttons added to the chat under SpecAsync
MaxNewMsgRace == 4   \* the same under SpecRace
MaxCommands == 1     \* /dart and /football commands typed in the chat
MaxChallenges == 1   \* usernames typed in the chat to challenge a player
MaxMatches == 2      \* sessions ever registered under Spec
MaxMatchesAsync == 2 \* sessions ever registered under SpecAsync
MaxMatchesRace == 3  \* sessions ever registered under SpecRace
MaxTasks == 2        \* updates in flight at once under SpecAsync
MaxNewMsgChallenge == 4   \* messages added to the chat under SpecChallenge
MaxChallengesAsync == 3   \* usernames typed under SpecChallenge
MaxMatchesChallenge == 2  \* sessions ever registered under SpecChallenge
MaxMsgCoin == 4      \* messages with buttons in the chat under SpecCoin
MaxMsgCommand == 2   \* messages with buttons in the chat under SpecCommand
MaxMatchesCommand == 1  \* sessions ever registered under SpecCommand
MaxTasksCommand == 1 \* updates handled at a time under SpecCommand
MaxNewMsgCommand == 2  \* messages with buttons added to a started chat under SpecCommand
MaxNewMsgRematch == 2  \* messages with buttons after the final one under SpecRematch
MaxMatchesRematch == 2 \* sessions registered by rematches under SpecRematch
MaxNewMsgVariant == 3  \* messages with buttons added to the chat under SpecVariant
MaxFace == 6         \* the highest value of a dart's dice message
MaxShot == 5         \* the highest value of a football's dice message
Dollar == 16         \* slots amounts are in sixteenths: the 1 of "+1" and "-1"
MinBet == 4          \* the lowest bet size, 0.25
MaxBet == 800        \* the highest bet size, 50
MaxSlotValue == 64   \* the highest value of a slot machine's dice message
MaxNewMsgSlots == 2  \* slots menus added to the chat under SpecSlots
MaxNewMsgLedger == 1 \* slots menus added to the chat under SpecLedger
SlotsBalance == 32   \* every user's balance under SpecSlots, 2.00
MaxHouse == 125      \* the house balance commands may add up to
MaxPoints == 2       \* "First to n points" buttons offered, n in 1..MaxPoints
InitBalance == 100   \* every user's balance at start, in cents
LowBalance == 10     \* a balance below every wager of Bets

\* ------------------------------------------------------------- constants
Users == {1, 2}
Bot == 0                                  \* the 'bot' opponent of a session
Variants == {"dart", "football"}
Modes == {"normal", "double", "crazy"}
Slots == {"player1", "player2"}
Sides == {"heads", "tails"}               \* coin.py: the side the player picks
DiceValues == {1, 4}                      \* values a dice message may show
Bets == {25}                              \* amounts typed after the command
NoSend == 0                               \* send_with_retry returned None
PrizePercent == 192                       \* prize = bet * 1.92
Inverted == 7                             \* crazy darts: 7 - roll
GoalFrom == 3                             \* football: a roll >= 3 scores

NoKey == <<0, 0>>
Keys == Users \X (Users \cup {Bot})

Other(s) == IF s = "player1" THEN "player2" ELSE "player1"

RECURSIVE Sum(_)
Sum(s) == IF s = <<>> THEN 0 ELSE Head(s) + Sum(Tail(s))

Max2(a, b) == IF a >= b THEN a ELSE b

\* ------------------------------------------------------------ the session
NoGame ==
  [player1 |-> 0, player2 |-> 0, mode |-> "normal", points_to_win |-> 0,
   bet |-> 0, scores |-> [s \in Slots |-> 0], current_player |-> "player1",
   rolls |-> [s \in Slots |-> <<>>], rolls_needed |-> 0,
   roll_count |-> [s \in Slots |-> 0], round_number |-> 0, message_id |-> 0]

rolls_needed_of(mode) == IF mode = "double" THEN 2 ELSE 1

NewGame(p1, p2, mode, points, bet) ==
  [player1 |-> p1, player2 |-> p2, mode |-> mode, points_to_win |-> points,
   bet |-> bet, scores |-> [s \in Slots |-> 0], current_player |-> "player1",
   rolls |-> [s \in Slots |-> <<>>], rolls_needed |-> rolls_needed_of(mode),
   roll_count |-> [s \in Slots |-> 0], round_number |-> 1, message_id |-> 0]

NoSetup == [initiator |-> 0, bet |-> 0, message_id |-> 0]
NoLast == [opponent |-> -1, mode |-> "none", points_to_win |-> 0, bet |-> 0]

\* coin.py: an absent 'coin_setup' and an absent 'coin_games' entry.  `before'
\* is history: the balance when the match was registered; no handler reads it.
NoCoinSetup == [initiator |-> 0, bet |-> 0, message_id |-> 0, choice |-> "none"]
\* slots.py 75-78: no 'slots_game' in user_data.
NoSlots == [bet_size |-> 0, message_id |-> 0]
NoCoinGame == [bet |-> 0, choice |-> "none", match_message_id |-> 0, before |-> 0]

IdleTask ==
  [pc |-> "idle", v |-> "dart", u |-> 0, m |-> 0, d |-> "none", mode |-> "none",
   n |-> 0, o |-> 0, key |-> NoKey, pk |-> "player1", botn |-> 0,
   botrolls |-> <<>>, tag |-> 0, last |-> NoLast, args |-> <<>>,
   balance |-> 0, bet_size |-> 0, dice_value |-> 0]

VARIABLES
  balance,      \* database: users.balance
  heap,         \* the session dicts ever created, by object number
  games,        \* bot_data['games']: key -> object number (0: absent)
  user_games,   \* bot_data['user_games']: user -> key (NoKey: absent)
  pending,      \* bot_data['pending_challenges'], a set of records with id
  last_games,   \* bot_data['last_games'][chat]: user -> record
  setup,        \* user_data['dart_setup'] / ['football_setup']
  umode,        \* user_data['dart_mode'] / ['football_mode']
  upoints,      \* user_data['dart_points'] / ['football_points']
  expecting,    \* user_data['expecting_username']
  msgs,         \* the chat's messages that carry buttons, by message id
  tasks,        \* updates in flight
  limits,       \* the environment's bounds: [tasks, msgs, matches, typed]
  debited,      \* history: per session, the stakes debited at its start
  credited,     \* history: per session, the amount credited at settlement
  settled,      \* history: per session, how often the settlement ran
  coin_setup,   \* user_data['coin_setup']
  coin_games,   \* bot_data['coin_games'][(chat, user)]
  house_balance, \* database: house_balance.balance
  chat_type,    \* update.effective_chat.type of the chat: "private" or "group"
  slots_game    \* user_data['slots_game']: user -> [bet_size, message_id]

vars == <<balance, heap, games, user_games, pending, last_games, setup, umode,
          upoints, expecting, msgs, tasks, limits, debited, credited, settled,
          coin_setup, coin_games, house_balance, chat_type, slots_game>>

\* ------------------------------------------------------------------ Init
FreshIn(lim, type) ==
  /\ balance = [u \in Users |-> InitBalance]
  /\ heap = <<>>
  /\ games = [k \in Keys |-> 0]
  /\ user_games = [u \in Users |-> NoKey]
  /\ pending = {}
  /\ last_games = [u \in Users |-> NoLast]
  /\ setup = [u \in Users |-> [v \in Variants |-> NoSetup]]
  /\ umode = [u \in Users |-> [v \in Variants |-> "none"]]
  /\ upoints = [u \in Users |-> [v \in Variants |-> 0]]
  /\ expecting = [u \in Users |-> FALSE]
  /\ msgs = <<>>
  /\ tasks = [t \in 1..MaxTasks |-> IdleTask]
  /\ limits = lim
  /\ debited = <<>>
  /\ credited = <<>>
  /\ settled = <<>>
  /\ coin_setup = [x \in Users |-> NoCoinSetup]
  /\ coin_games = [x \in Users |-> NoCoinGame]
  /\ house_balance = 0
  /\ chat_type = type
  /\ slots_game = [x \in Users |-> NoSlots]

Fresh(lim) == FreshIn(lim, "private")

Init ==
  Fresh([tasks |-> 1, msgs |-> MaxMsg, matches |-> MaxMatches,
         typed |-> MaxChallenges])

\* ----------------------------------------------------------- bookkeeping
Busy == {t \in 1..MaxTasks : tasks[t].pc # "idle"}

\* A session dict lives as long as the registry or a running handler holds it.
Live(o, gms, tks) ==
  \/ \E k \in Keys : gms[k] = o
  \/ \E t \in DOMAIN tks : tks[t].pc # "idle" /\ tks[t].o = o

Collect(h, gms, tks) ==
  [o \in DOMAIN h |-> IF Live(o, gms, tks) THEN h[o] ELSE NoGame]

Upd(h, gms, tks) ==
  /\ tasks' = tks
  /\ games' = gms
  /\ heap' = Collect(h, gms, tks)

Done(t) == [tasks EXCEPT ![t] = IdleTask]
Go(t, pc) == [tasks EXCEPT ![t].pc = pc]

Registering == {"bot", "accept", "play_again", "double"}
RegPending ==
  {t \in Busy : tasks[t].pc = "h" /\ tasks[t].d \in Registering}

\* The update is taken by the lowest free task slot, while the chat may still
\* hold the messages the updates in flight are going to send.
Admit(t) ==
  /\ t <= limits.tasks
  /\ tasks[t].pc = "idle"
  /\ \A s \in 1..(t - 1) : tasks[s].pc # "idle"
  /\ Len(msgs) + Cardinality(Busy) < limits.msgs

\* A message with buttons.  `by' is the session whose handler sent it (0: none)
\* and `hits' counts the throws accepted from clicks on it; neither is read by
\* any handler.
Message(kind, v, screen, tag, by) ==
  [kind |-> kind, v |-> v, screen |-> screen, tag |-> tag, by |-> by, hits |-> 0]

\* slots.py 130-140: the buttons of the slots menu that change state.
SlotsData ==
  {"slots_spin", "slots_cancel", "slots_bet_-1", "slots_bet_+1", "slots_bet_min",
   "slots_bet_double", "slots_bet_max"}

\* The buttons a message shows, as (data kind, mode argument, number argument).
\* A declined challenge has lost its keyboard (darts.py 433), but a client that
\* has not yet shown the edit can still send its accept button.
Button(d, mode, n) == [d |-> d, mode |-> mode, n |-> n]

Buttons(msg) ==
  IF msg.kind = "setup" THEN
    IF msg.screen = "mode" THEN
      {Button("mode", md, 0) : md \in Modes} \cup {Button("cancel", "none", 0)}
    ELSE IF msg.screen = "points" THEN
      {Button("points", "none", p) : p \in 1..MaxPoints}
        \cup {Button("cancel", "none", 0)}
    ELSE IF msg.screen = "confirm" THEN
      {Button("confirm_setup", "none", 0), Button("cancel", "none", 0)}
    ELSE IF msg.screen = "choose" THEN
      {Button("challenge", "none", 0), Button("bot", "none", 0)}
    ELSE {}
  ELSE IF msg.kind = "throw" THEN {Button("throw", "none", msg.tag)}
  ELSE IF msg.kind = "challenge" THEN
    IF msg.screen \in {"open", "rematch"}
      THEN {Button("accept", "none", msg.tag), Button("cancel_id", "none", msg.tag)}
    ELSE IF msg.screen = "declined"
      THEN {Button("accept", "none", msg.tag)}
      ELSE {}
  ELSE IF msg.kind = "final" THEN
    {Button("play_again", "none", 0), Button("double", "none", 0)}
  ELSE IF msg.kind = "coin" THEN
    IF msg.screen = "side" THEN
      {Button("coin_side", c, 0) : c \in Sides} \cup {Button("coin_cancel", "none", 0)}
    ELSE IF msg.screen = "confirm" THEN
      {Button("coin_confirm", "none", 0), Button("coin_cancel", "none", 0)}
    ELSE IF msg.screen = "choose" THEN {Button("coin_bot", "none", 0)}
    ELSE IF msg.screen = "match" THEN {Button("coin_flip", "none", 0)}
    ELSE IF msg.screen = "over" THEN
      {Button("coin_restart", "none", 0), Button("coin_double", "none", 0)}
    ELSE {}
  ELSE IF msg.kind = "slots" THEN
    IF msg.screen = "menu" THEN {Button(d, "none", 0) : d \in SlotsData} ELSE {}
  ELSE {}

SetupData == {"mode", "points", "confirm_setup", "challenge", "bot", "cancel"}

\* ------------------------------------------------- main.py: the dispatch
\* with_game_ownership_check(handler, use_bot_data=True), lines 601-610: the
\* session of the caller after the wrapper has run, for a click on message m.
wrapped_game(g, m) == [g EXCEPT !.message_id = m]

\* A callback query arrives: wrapped_handler up to the handler's first await.
\* A caller without a session reaches the handler only through 'dice_setup'
\* (lines 612-615), which another game module owns; the action is the case
\* where that module lets the click through, the other case changes nothing.
with_game_ownership_check(t, u, m, b) ==
  /\ Admit(t)
  /\ b.d \in Registering => Len(heap) + Cardinality(RegPending) < limits.matches
  /\ LET key == user_games[u]
         o == IF key = NoKey THEN 0 ELSE games[key]
         tk == [tasks EXCEPT ![t] =
                  [IdleTask EXCEPT !.pc = "h", !.v = msgs[m].v, !.u = u, !.m = m,
                                   !.d = b.d, !.mode = b.mode, !.n = b.n]]
     IN IF o # 0
          THEN Upd([heap EXCEPT ![o] = wrapped_game(heap[o], m)], games, tk)
          ELSE Upd(heap, games, tk)
  /\ UNCHANGED <<balance, user_games, pending, last_games, setup, umode, upoints,
                 expecting, msgs, limits, debited, credited, settled>>
  /\ UNCHANGED <<coin_setup, coin_games, house_balance, chat_type, slots_game>>

\* The commands typed so far: each one is answered by one menu.
Commands ==
  Cardinality({m \in 1..Len(msgs) : msgs[m].kind = "setup"})
    + Cardinality({t \in Busy : tasks[t].pc = "cmd_sent"})

\* main.py 245-249: outside a private chat the bet is added to the house
\* balance before the game's own command handler runs.
house_after(bet_amount) ==
  IF chat_type # "private" THEN house_balance + bet_amount ELSE house_balance

\* create_game_handler (main.py 208-251) calling dart_command / football_command
\* up to the send of the mode menu.
game_command(t, u, v, amount) ==
  /\ Admit(t)
  /\ Commands < MaxCommands
  /\ amount > 0
  /\ amount <= balance[u]
  /\ user_games[u] = NoKey
  /\ setup' = [setup EXCEPT ![u][v] =
                 [initiator |-> u, bet |-> amount, message_id |-> 0]]
  /\ Upd(heap, games,
         [tasks EXCEPT ![t] = [IdleTask EXCEPT !.pc = "cmd_sent", !.v = v, !.u = u]])
  /\ UNCHANGED <<balance, user_games, pending, last_games, umode, upoints,
                 expecting, msgs, limits, debited, credited, settled>>
  /\ house_balance' = house_after(amount)
  /\ UNCHANGED <<coin_setup, coin_games, chat_type, slots_game>>

\* dart_command line 189: the menu was sent, its message id is stored.
command_sent(t) ==
  /\ tasks[t].pc = "cmd_sent"
  /\ LET u == tasks[t].u
         v == tasks[t].v
         id == Len(msgs) + 1
     IN /\ msgs' = Append(msgs, Message("setup", v, "mode", 0, 0))
        /\ setup' = IF setup[u][v] = NoSetup THEN setup   \* KeyError
                    ELSE [setup EXCEPT ![u][v].message_id = id]
  /\ Upd(heap, games, Done(t))
  /\ UNCHANGED <<balance, user_games, pending, last_games, umode, upoints,
                 expecting, limits, debited, credited, settled>>
  /\ UNCHANGED <<coin_setup, coin_games, house_balance, chat_type, slots_game>>

\* --------------------------------------- darts.py / football.py: the setup
in_setup(t) == setup[tasks[t].u][tasks[t].v] # NoSetup

\* darts.py 207-214, football.py 219: the caller owns the setup and clicked
\* the message the setup is attached to.
setup_ok(t) ==
  /\ setup[tasks[t].u][tasks[t].v].initiator = tasks[t].u
  /\ setup[tasks[t].u][tasks[t].v].message_id = tasks[t].m

SetupStep(t, d) ==
  /\ tasks[t].pc = "h"
  /\ tasks[t].d = d
  /\ in_setup(t)
  /\ setup_ok(t)

\* The handler returns without touching anything: a setup exists and the
\* click is not on it, or no branch of the if/elif chain takes the data.
handler_no_effect(t) ==
  /\ tasks[t].pc = "h"
  /\ tasks[t].v \in Variants
  /\ \/ in_setup(t) /\ (~setup_ok(t) \/ tasks[t].d \notin SetupData)
     \/ ~in_setup(t) /\ tasks[t].d \in SetupData
  /\ Upd(heap, games, Done(t))
  /\ UNCHANGED <<balance, user_games, pending, last_games, setup, umode, upoints,
                 expecting, msgs, limits, debited, credited, settled>>
  /\ UNCHANGED <<coin_setup, coin_games, house_balance, chat_type, slots_game>>

\* "dart_cancel" (darts.py 237-240)
setup_cancel(t) ==
  /\ SetupStep(t, "cancel")
  /\ setup' = [setup EXCEPT ![tasks[t].u][tasks[t].v] = NoSetup]
  /\ msgs' = [msgs EXCEPT ![tasks[t].m].screen = "done"]
  /\ Upd(heap, games, Done(t))
  /\ UNCHANGED <<balance, user_games, pending, last_games, umode, upoints,
                 expecting, limits, debited, credited, settled>>
  /\ UNCHANGED <<coin_setup, coin_games, house_balance, chat_type, slots_game>>

\* "dart_mode_<mode>" (darts.py 242-251)
setup_mode(t) ==
  /\ SetupStep(t, "mode")
  /\ umode' = [umode EXCEPT ![tasks[t].u][tasks[t].v] = tasks[t].mode]
  /\ msgs' = [msgs EXCEPT ![tasks[t].m].screen = "points"]
  /\ Upd(heap, games, Done(t))
  /\ UNCHANGED <<balance, user_games, pending, last_games, setup, upoints,
                 expecting, limits, debited, credited, settled>>
  /\ UNCHANGED <<coin_setup, coin_games, house_balance, chat_type, slots_game>>

\* "dart_points_<n>" (darts.py 253-270)
setup_points(t) ==
  /\ SetupStep(t, "points")
  /\ upoints' = [upoints EXCEPT ![tasks[t].u][tasks[t].v] = tasks[t].n]
  /\ msgs' = [msgs EXCEPT ![tasks[t].m].screen = "confirm"]
  /\ Upd(heap, games, Done(t))
  /\ UNCHANGED <<balance, user_games, pending, last_games, setup, umode,
                 expecting, limits, debited, credited, settled>>
  /\ UNCHANGED <<coin_setup, coin_games, house_balance, chat_type, slots_game>>

\* "dart_confirm_setup" (darts.py 272-293)
setup_confirm(t) ==
  /\ SetupStep(t, "confirm_setup")
  /\ msgs' = [msgs EXCEPT ![tasks[t].m].screen = "choose"]
  /\ Upd(heap, games, Done(t))
  /\ UNCHANGED <<balance, user_games, pending, last_games, setup, umode, upoints,
                 expecting, limits, debited, credited, settled>>
  /\ UNCHANGED <<coin_setup, coin_games, house_balance, chat_type, slots_game>>

\* "dart_challenge" (darts.py 295-297)
setup_challenge(t) ==
  /\ SetupStep(t, "challenge")
  /\ expecting' = [expecting EXCEPT ![tasks[t].u] = TRUE]
  /\ Upd(heap, games, Done(t))
  /\ UNCHANGED <<balance, user_games, pending, last_games, setup, umode, upoints,
                 msgs, limits, debited, credited, settled>>
  /\ UNCHANGED <<coin_setup, coin_games, house_balance, chat_type, slots_game>>

\* ------------------------------------------------ start_game_against_bot
\* A start that takes the stake twice.
start_game_against_bot_debit_twice(t, bet, mode, points) ==
  LET u == tasks[t].u
      key == <<u, Bot>>
      o == Len(heap) + 1
  IN IF user_games[u] # NoKey
       THEN /\ Upd(heap, games, Done(t))
            /\ UNCHANGED <<balance, user_games, debited, credited, settled>>
       ELSE /\ Upd(Append(heap, NewGame(u, Bot, mode, points, bet)),
                   [games EXCEPT ![key] = o],
                   [tasks EXCEPT ![t].pc = "start_sent", ![t].o = o, ![t].key = key])
            /\ user_games' = [user_games EXCEPT ![u] = key]
            /\ balance' = [balance EXCEPT ![u] = @ - 2 * bet]
            /\ debited' = Append(debited, bet)
            /\ credited' = Append(credited, 0)
            /\ settled' = Append(settled, 0)

\* darts.py 107-132 with the setup values the caller left in user_data.
start_game_against_bot(t, bet, mode, points) ==
  LET u == tasks[t].u
      key == <<u, Bot>>
      o == Len(heap) + 1
  IN IF user_games[u] # NoKey
       THEN /\ Upd(heap, games, Done(t))
            /\ UNCHANGED <<balance, user_games, debited, credited, settled>>
       ELSE /\ Upd(Append(heap, NewGame(u, Bot, mode, points, bet)),
                   [games EXCEPT ![key] = o],
                   [tasks EXCEPT ![t].pc = "start_sent", ![t].o = o, ![t].key = key])
            /\ user_games' = [user_games EXCEPT ![u] = key]
            /\ balance' = [balance EXCEPT ![u] = @ - bet]
            /\ debited' = Append(debited, bet)
            /\ credited' = Append(credited, 0)
            /\ settled' = Append(settled, 0)

\* "dart_bot" (darts.py 299-300)
setup_bot(t) ==
  /\ SetupStep(t, "bot")
  /\ start_game_against_bot(t, setup[tasks[t].u][tasks[t].v].bet,
                            umode[tasks[t].u][tasks[t].v],
                            upoints[tasks[t].u][tasks[t].v])
  /\ UNCHANGED <<pending, last_games, setup, umode, upoints, expecting, msgs, limits>>
  /\ UNCHANGED <<coin_setup, coin_games, house_balance, chat_type, slots_game>>

\* darts.py 142-144: the first prompt was sent.
start_sent(t) ==
  /\ tasks[t].pc = "start_sent"
  /\ LET id == Len(msgs) + 1
     IN /\ msgs' = Append(msgs, Message("throw", tasks[t].v, "open", 1, tasks[t].o))
        /\ Upd([heap EXCEPT ![tasks[t].o].message_id = id], games, Done(t))
  /\ setup' = [setup EXCEPT ![tasks[t].u][tasks[t].v] = NoSetup]
  /\ UNCHANGED <<balance, user_games, pending, last_games, umode, upoints,
                 expecting, limits, debited, credited, settled>>
  /\ UNCHANGED <<coin_setup, coin_games, house_balance, chat_type, slots_game>>

\* ------------------------------------------------------ round evaluation
\* darts.py 22-27
dart_round_scores_raw(g) ==
  IF g.mode = "double" THEN <<Sum(g.rolls.player1), Sum(g.rolls.player2)>>
  ELSE <<g.rolls.player1[1], g.rolls.player2[1]>>

dart_round_scores(g) ==
  IF g.mode = "normal" THEN <<g.rolls.player1[1], g.rolls.player2[1]>>
  ELSE IF g.mode = "double" THEN <<Sum(g.rolls.player1), Sum(g.rolls.player2)>>
  ELSE <<Inverted - g.rolls.player1[1], Inverted - g.rolls.player2[1]>>

\* darts.py 29-32
dart_scored(g) ==
  LET sc == dart_round_scores(g)
  IN IF sc[1] > sc[2] THEN [g EXCEPT !.scores.player1 = @ + 1]
     ELSE IF sc[2] > sc[1] THEN [g EXCEPT !.scores.player2 = @ + 1]
     ELSE g

RECURSIVE SumGoals(_)
SumGoals(s) ==
  IF s = <<>> THEN 0
  ELSE (IF Head(s) >= GoalFrom THEN Head(s) ELSE 0) + SumGoals(Tail(s))

\* football.py 10-17
calculate_effective_score(rolls, mode) ==
  IF mode = "normal" THEN (IF rolls[1] >= GoalFrom THEN rolls[1] ELSE 0)
  ELSE IF mode = "double" THEN SumGoals(rolls)
  ELSE (IF rolls[1] = 1 THEN 1 ELSE 0)

\* football.py 34-47
football_scored(g) ==
  LET e1 == calculate_effective_score(g.rolls.player1, g.mode)
      e2 == calculate_effective_score(g.rolls.player2, g.mode)
  IN IF e1 > 0 /\ e2 = 0 THEN [g EXCEPT !.scores.player1 = @ + 1]
     ELSE IF e2 > 0 /\ e1 = 0 THEN [g EXCEPT !.scores.player2 = @ + 1]
     ELSE g

\* evaluate_round up to its first await (darts.py 10-34, football.py 21-49):
\* the session and where the handler continues.
evaluate_round(v, g) ==
  IF Len(g.rolls.player1) < g.rolls_needed \/ Len(g.rolls.player2) < g.rolls_needed
    THEN [g |-> g, pc |-> "incomplete"]
    ELSE [g |-> IF v = "dart" THEN dart_scored(g) ELSE football_scored(g),
          pc |-> "eval"]

\* A match that would be over at the first point of either slot.
match_over_any_point(g) == Max2(g.scores.player1, g.scores.player2) >= 1

\* darts.py 46 / 318: a slot has reached the target.
match_over(g) == Max2(g.scores.player1, g.scores.player2) >= g.points_to_win

\* darts.py 47
winner_of(g) == IF g.scores.player1 > g.scores.player2 THEN "player1" ELSE "player2"

\* A credit of the prize without the stake.
settlement_credit_prize_only(g) == (g.bet * PrizePercent) \div 100

\* darts.py 49-51: what the winner is credited.
settlement_credit(g) == (g.bet * PrizePercent) \div 100 + g.bet

\* darts.py 96-99
next_round_same_turn(g) ==
  [g EXCEPT !.rolls = [s \in Slots |-> <<>>],
            !.roll_count = [s \in Slots |-> 0],
            !.round_number = @ + 1]

next_round(g) ==
  [g EXCEPT !.rolls = [s \in Slots |-> <<>>],
            !.roll_count = [s \in Slots |-> 0],
            !.current_player = "player1",
            !.round_number = @ + 1]

\* darts.py 17-19
reset_incomplete(g) ==
  [g EXCEPT !.rolls = [s \in Slots |-> <<>>],
            !.roll_count = [s \in Slots |-> 0],
            !.current_player = "player1"]

\* --------------------------------------------------------------- a throw
\* darts.py 321
player_key(g, u) ==
  IF g.player1 = u THEN "player1" ELSE IF g.player2 = u THEN "player2" ELSE "none"

\* The checks of a throw without the one of the turn.
throw_rejected_any_turn(g, u, m, tag) ==
  \/ m # g.message_id
  \/ match_over(g)
  \/ player_key(g, u) = "none"
  \/ tag # g.round_number

\* darts.py 314-336, football.py 315-330: the checks a throw must pass.
throw_rejected(g, u, m, tag) ==
  \/ m # g.message_id
  \/ match_over(g)
  \/ player_key(g, u) = "none"
  \/ tag # g.round_number
  \/ player_key(g, u) # g.current_player

\* "dart_throw_<n>" / "football_take_shot_<n>" up to the send of the dice.
handler_throw(t) ==
  /\ tasks[t].pc = "h"
  /\ tasks[t].d = "throw"
  /\ ~in_setup(t)
  /\ LET u == tasks[t].u
         key == user_games[u]
         o == IF key = NoKey THEN 0 ELSE games[key]
     IN IF o = 0 \/ throw_rejected(heap[o], u, tasks[t].m, tasks[t].n)
          THEN Upd(heap, games, Done(t))
          ELSE Upd(heap, games,
                   [tasks EXCEPT ![t].pc = "dice", ![t].o = o, ![t].key = key,
                                 ![t].pk = player_key(heap[o], u)])
  /\ UNCHANGED <<balance, user_games, pending, last_games, setup, umode, upoints,
                 expecting, msgs, limits, debited, credited, settled>>
  /\ UNCHANGED <<coin_setup, coin_games, house_balance, chat_type, slots_game>>

Step(g, pc, botn, tag) == [g |-> g, pc |-> pc, botn |-> botn, tag |-> tag]

Evaluated(v, g) ==
  LET e == evaluate_round(v, g) IN Step(e.g, e.pc, 0, 0)

\* darts.py 361 / football.py 351: the dice the bot still has to throw.
bot_rolls_left(g, other) == g.rolls_needed - g.roll_count[other]

BothComplete(g) ==
  /\ g.roll_count.player1 = g.rolls_needed
  /\ g.roll_count.player2 = g.rolls_needed

\* A turn that passes to the other slot after every throw.
dart_after_throw_single(g, pk) ==
  IF BothComplete(g) THEN Evaluated("dart", g)
  ELSE LET other == Other(pk)
           g2 == [g EXCEPT !.current_player = other]
       IN IF g2[other] = Bot
            THEN IF bot_rolls_left(g2, other) > 0
                   THEN Step(g2, "botdice", bot_rolls_left(g2, other), 0)
                   ELSE Evaluated("dart", g2)
            ELSE Step(g2, "other", 0, g2.round_number)

\* darts.py 348-377, after the thrower's outcome was appended.
dart_after_throw(g, pk) ==
  IF BothComplete(g) THEN Evaluated("dart", g)
  ELSE IF g.roll_count[pk] < g.rolls_needed
    THEN Step(g, "again", 0, g.round_number)
  ELSE LET other == Other(pk)
           g2 == [g EXCEPT !.current_player = other]
       IN IF g2[other] = Bot
            THEN IF bot_rolls_left(g2, other) > 0
                   THEN Step(g2, "botdice", bot_rolls_left(g2, other), 0)
                   ELSE Evaluated("dart", g2)
            ELSE Step(g2, "other", 0, g2.round_number)

\* football.py 362-370
football_check(g) ==
  IF BothComplete(g) THEN Step(g, "f_eval", 0, 0)
  ELSE Step(g, "other", 0, g.round_number)

\* football.py 341-370, after the sleep that follows the shot.
football_turn(g, pk) ==
  IF g.roll_count[pk] < g.rolls_needed
    THEN Step(g, "again", 0, g.round_number)
  ELSE LET other == Other(pk)
           g2 == [g EXCEPT !.current_player = other]
       IN IF g2[other] = Bot
            THEN IF bot_rolls_left(g2, other) > 0
                   THEN Step(g2, "botdice", bot_rolls_left(g2, other), 0)
                   ELSE Step(g2, "f_check", 0, 0)
            ELSE football_check(g2)

Continue(t, r) ==
  Upd([heap EXCEPT ![tasks[t].o] = r.g], games,
      [tasks EXCEPT ![t].pc = r.pc, ![t].botn = r.botn, ![t].tag = r.tag,
                    ![t].botrolls = <<>>])

\* darts.py 343-345, football.py 335-337
append_outcome(g, pk, val) ==
  [g EXCEPT !.rolls[pk] = Append(@, val), !.roll_count[pk] = @ + 1]

\* The thrower's dice message came back (darts.py 338-349, football.py 331-339).
player_dice(t, val) ==
  /\ tasks[t].pc = "dice"
  /\ IF val = NoSend
       THEN /\ Upd(heap, games, Done(t))
            /\ UNCHANGED msgs
       ELSE LET g1 == append_outcome(heap[tasks[t].o], tasks[t].pk, val)
            IN /\ msgs' = [msgs EXCEPT ![tasks[t].m].hits = @ + 1]
               /\ IF tasks[t].v = "dart"
                    THEN Continue(t, dart_after_throw(g1, tasks[t].pk))
                    ELSE Continue(t, Step(g1, "f_turn", 0, 0))
  /\ UNCHANGED <<balance, user_games, pending, last_games, setup, umode, upoints,
                 expecting, limits, debited, credited, settled>>
  /\ UNCHANGED <<coin_setup, coin_games, house_balance, chat_type, slots_game>>

\* football.py 341-360
football_after_shot(t) ==
  /\ tasks[t].pc = "f_turn"
  /\ Continue(t, football_turn(heap[tasks[t].o], tasks[t].pk))
  /\ UNCHANGED <<balance, user_games, pending, last_games, setup, umode, upoints,
                 expecting, msgs, limits, debited, credited, settled>>
  /\ UNCHANGED <<coin_setup, coin_games, house_balance, chat_type, slots_game>>

\* football.py 362-363
football_recheck(t) ==
  /\ tasks[t].pc = "f_check"
  /\ Continue(t, football_check(heap[tasks[t].o]))
  /\ UNCHANGED <<balance, user_games, pending, last_games, setup, umode, upoints,
                 expecting, msgs, limits, debited, credited, settled>>
  /\ UNCHANGED <<coin_setup, coin_games, house_balance, chat_type, slots_game>>

\* football.py 364
football_evaluate(t) ==
  /\ tasks[t].pc = "f_eval"
  /\ Continue(t, Evaluated("football", heap[tasks[t].o]))
  /\ UNCHANGED <<balance, user_games, pending, last_games, setup, umode, upoints,
                 expecting, msgs, limits, debited, credited, settled>>
  /\ UNCHANGED <<coin_setup, coin_games, house_balance, chat_type, slots_game>>

\* One dice of the bot came back (darts.py 361-371, football.py 351-360).
bot_dice(t, val) ==
  /\ tasks[t].pc = "botdice"
  /\ IF val = NoSend THEN Upd(heap, games, Done(t))
     ELSE LET rolls == Append(tasks[t].botrolls, val)
              other == Other(tasks[t].pk)
              g == heap[tasks[t].o]
              g1 == [g EXCEPT !.rolls[other] = @ \o rolls,
                              !.roll_count[other] = @ + Len(rolls)]
          IN IF Len(rolls) < tasks[t].botn
               THEN Upd(heap, games, [tasks EXCEPT ![t].botrolls = rolls])
               ELSE IF tasks[t].v = "dart"
                      THEN Continue(t, Evaluated("dart", g1))
                      ELSE Continue(t, Step(g1, "f_check", 0, 0))
  /\ UNCHANGED <<balance, user_games, pending, last_games, setup, umode, upoints,
                 expecting, msgs, limits, debited, credited, settled>>
  /\ UNCHANGED <<coin_setup, coin_games, house_balance, chat_type, slots_game>>

\* evaluate_round after its first await (darts.py 46-51 and 96-99).
evaluate_settle(t) ==
  /\ tasks[t].pc = "eval"
  /\ LET o == tasks[t].o
         g == heap[o]
         wid == g[winner_of(g)]
         paid == IF wid # Bot THEN settlement_credit(g) ELSE 0
     IN IF match_over(g)
          THEN /\ balance' = IF wid # Bot THEN [balance EXCEPT ![wid] = @ + paid]
                             ELSE balance
               /\ credited' = [credited EXCEPT ![o] = @ + paid]
               /\ settled' = [settled EXCEPT ![o] = @ + 1]
               /\ Upd(heap, games, Go(t, "final"))
          ELSE /\ Continue(t, Step(next_round(g), "newround", 0, g.round_number + 1))
               /\ UNCHANGED <<balance, credited, settled>>
  /\ UNCHANGED <<user_games, pending, last_games, setup, umode, upoints,
                 expecting, msgs, limits, debited>>
  /\ UNCHANGED <<coin_setup, coin_games, house_balance, chat_type, slots_game>>

\* darts.py 68-90
last_game_of(g, opponent) ==
  [opponent |-> opponent, mode |-> g.mode, points_to_win |-> g.points_to_win,
   bet |-> g.bet]

\* A completion that records the summary of the first slot only.
record_last_games_player1_only(lg, g) ==
  [lg EXCEPT ![g.player1] = last_game_of(g, g.player2)]

record_last_games(lg, g) ==
  IF g.player2 # Bot
    THEN [lg EXCEPT ![g.player1] = last_game_of(g, g.player2),
                    ![g.player2] = last_game_of(g, g.player1)]
    ELSE [lg EXCEPT ![g.player1] = last_game_of(g, Bot)]

\* darts.py 91-93: the pointers deleted, until a del raises KeyError.
release_pointers(ug, g) ==
  LET a == IF g.player2 = Bot THEN [ug |-> ug, ok |-> TRUE]
           ELSE IF ug[g.player2] # NoKey
             THEN [ug |-> [ug EXCEPT ![g.player2] = NoKey], ok |-> TRUE]
             ELSE [ug |-> ug, ok |-> FALSE]
  IN IF ~a.ok THEN a
     ELSE IF a.ug[g.player1] # NoKey
       THEN [ug |-> [a.ug EXCEPT ![g.player1] = NoKey], ok |-> TRUE]
       ELSE [ug |-> a.ug, ok |-> FALSE]

\* darts.py 67-94: the final message was sent.
evaluate_final(t) ==
  /\ tasks[t].pc = "final"
  /\ LET g == heap[tasks[t].o]
         r == release_pointers(user_games, g)
     IN /\ last_games' = record_last_games(last_games, g)
        /\ user_games' = r.ug
        /\ Upd(heap, IF r.ok THEN [games EXCEPT ![tasks[t].key] = 0] ELSE games,
               Done(t))
  /\ msgs' = Append(msgs, Message("final", tasks[t].v, "open", 0, tasks[t].o))
  /\ UNCHANGED <<balance, pending, setup, umode, upoints, expecting, limits,
                 debited, credited, settled>>
  /\ UNCHANGED <<coin_setup, coin_games, house_balance, chat_type, slots_game>>

\* darts.py 104, 355, 377: the next prompt was sent, its id becomes the anchor.
prompt_sent(t) ==
  /\ tasks[t].pc \in {"again", "other", "newround"}
  /\ msgs' = Append(msgs, Message("throw", tasks[t].v, "open", tasks[t].tag,
                                  tasks[t].o))
  /\ Upd([heap EXCEPT ![tasks[t].o].message_id = Len(msgs) + 1], games, Done(t))
  /\ UNCHANGED <<balance, user_games, pending, last_games, setup, umode, upoints,
                 expecting, limits, debited, credited, settled>>
  /\ UNCHANGED <<coin_setup, coin_games, house_balance, chat_type, slots_game>>

\* darts.py 16-20: evaluate_round found a buffer short.
incomplete_reset(t) ==
  /\ tasks[t].pc = "incomplete"
  /\ Upd([heap EXCEPT ![tasks[t].o] = reset_incomplete(@)], games, Done(t))
  /\ UNCHANGED <<balance, user_games, pending, last_games, setup, umode, upoints,
                 expecting, msgs, limits, debited, credited, settled>>
  /\ UNCHANGED <<coin_setup, coin_games, house_balance, chat_type, slots_game>>

\* ------------------------------------------------------------ challenges
Challenge(id, initiator, challenged, mode, points, bet) ==
  [id |-> id, initiator |-> initiator, challenged |-> challenged, mode |-> mode,
   points_to_win |-> points, bet |-> bet]

HasChallenge(id) == \E c \in pending : c.id = id
ChallengeOf(id) == CHOOSE c \in pending : c.id = id

\* darts.py 456, 506, 557: game_id = len(pending_challenges) + 1
next_game_id == Cardinality(pending) + 1

\* pending_challenges[game_id] = {...}
put_challenge(c) == {x \in pending : x.id # c.id} \cup {c}

\* A del that removes nothing.
drop_challenge_none(id) == pending

\* del pending_challenges[game_id]
drop_challenge(id) == {x \in pending : x.id # id}

\* The usernames typed so far: each one is answered by one challenge message.
\* A rematch posts a challenge without any typing, hence the tag of who typed.
Typed ==
  Cardinality({m \in 1..Len(msgs) : msgs[m].kind = "challenge"
                                     /\ msgs[m].screen # "rematch"})
    + Cardinality({t \in Busy : tasks[t].pc = "text_sent"})

\* A validation that forgets the opponent's balance.
propose_refused_no_balance(u, target, bet) ==
  \/ target = u
  \/ user_games[target] # NoKey

\* darts.py 547-556: the typed opponent is the caller, cannot pay the wager or
\* is in a session.
propose_refused(u, target, bet) ==
  \/ target = u
  \/ balance[target] < bet
  \/ user_games[target] # NoKey

\* dart_text_handler (darts.py 530-557) up to the send of the challenge or of
\* the refusal; the task keeps the typed opponent in n.
text_message(t, u, v, target) ==
  /\ Admit(t)
  /\ Typed < limits.typed
  /\ expecting[u]
  /\ setup[u][v].initiator = u
  /\ umode[u][v] # "none"
  /\ IF propose_refused(u, target, setup[u][v].bet)
       THEN /\ pending' = pending
            /\ Upd(heap, games,
                   [tasks EXCEPT ![t] = [IdleTask EXCEPT !.pc = "text_refused",
                                                         !.v = v, !.u = u,
                                                         !.n = target]])
       ELSE /\ pending' = put_challenge(Challenge(next_game_id, u, target,
                                                  umode[u][v], upoints[u][v],
                                                  setup[u][v].bet))
            /\ Upd(heap, games,
                   [tasks EXCEPT ![t] = [IdleTask EXCEPT !.pc = "text_sent", !.v = v,
                                                         !.u = u, !.n = target,
                                                         !.tag = next_game_id]])
  /\ UNCHANGED <<balance, user_games, last_games, setup, umode, upoints, expecting,
                 msgs, limits, debited, credited, settled>>
  /\ UNCHANGED <<coin_setup, coin_games, house_balance, chat_type, slots_game>>

\* darts.py 548-549, 552-553, 555-556: the refusal was sent; the handler returns
\* and the caller is still expected to type a username.
text_refused(t) ==
  /\ tasks[t].pc = "text_refused"
  /\ Upd(heap, games, Done(t))
  /\ UNCHANGED <<balance, user_games, pending, last_games, setup, umode, upoints,
                 expecting, msgs, limits, debited, credited, settled>>
  /\ UNCHANGED <<coin_setup, coin_games, house_balance, chat_type, slots_game>>

\* darts.py 558-577: the challenge was posted.
text_sent(t) ==
  /\ tasks[t].pc = "text_sent"
  /\ msgs' = Append(msgs, Message("challenge", tasks[t].v, "open", tasks[t].tag, 0))
  /\ expecting' = [expecting EXCEPT ![tasks[t].u] = FALSE]
  /\ Upd(heap, games, Done(t))
  /\ UNCHANGED <<balance, user_games, pending, last_games, setup, umode, upoints,
                 limits, debited, credited, settled>>
  /\ UNCHANGED <<coin_setup, coin_games, house_balance, chat_type, slots_game>>

\* An accept that anyone may give.
accept_refused_busy_only(c, u) ==
  \/ user_games[c.initiator] # NoKey
  \/ user_games[u] # NoKey

\* darts.py 386-390: the caller is not the challenged user (silent return), or
\* one of the two is already in a game.
accept_refused(c, u) ==
  \/ u # c.challenged
  \/ user_games[c.initiator] # NoKey
  \/ user_games[u] # NoKey

\* "dart_accept_<id>" (darts.py 380-410)
handler_accept(t) ==
  /\ tasks[t].pc = "h"
  /\ tasks[t].d = "accept"
  /\ ~in_setup(t)
  /\ LET u == tasks[t].u
         id == tasks[t].n
     IN IF ~HasChallenge(id)
          THEN /\ msgs' = [msgs EXCEPT ![tasks[t].m].screen = "done"]
               /\ Upd(heap, games, Done(t))
               /\ UNCHANGED <<balance, user_games, debited, credited, settled>>
        ELSE LET c == ChallengeOf(id)
                 key == <<c.initiator, u>>
                 o == Len(heap) + 1
             IN IF accept_refused(c, u)
                  THEN /\ Upd(heap, games, Done(t))
                       /\ UNCHANGED <<balance, user_games, msgs, debited, credited,
                                      settled>>
                  ELSE /\ Upd(Append(heap, NewGame(c.initiator, u, c.mode,
                                                   c.points_to_win, c.bet)),
                              [games EXCEPT ![key] = o],
                              [tasks EXCEPT ![t].pc = "accept_sent", ![t].o = o,
                                            ![t].key = key])
                       /\ user_games' = [user_games EXCEPT ![c.initiator] = key,
                                                           ![u] = key]
                       /\ balance' = [balance EXCEPT ![c.initiator] = @ - c.bet,
                                                     ![u] = @ - c.bet]
                       /\ debited' = Append(debited, 2 * c.bet)
                       /\ credited' = Append(credited, 0)
                       /\ settled' = Append(settled, 0)
                       /\ UNCHANGED msgs
  /\ UNCHANGED <<pending, last_games, setup, umode, upoints, expecting, limits>>
  /\ UNCHANGED <<coin_setup, coin_games, house_balance, chat_type, slots_game>>

\* darts.py 421-425: the first prompt of the accepted match was sent.
accept_sent(t) ==
  /\ tasks[t].pc = "accept_sent"
  /\ msgs' = Append(msgs, Message("throw", tasks[t].v, "open", 1, tasks[t].o))
  /\ Upd([heap EXCEPT ![tasks[t].o].message_id = Len(msgs) + 1], games, Done(t))
  /\ pending' = drop_challenge(tasks[t].n)
  /\ setup' = IF HasChallenge(tasks[t].n)
                THEN [setup EXCEPT ![tasks[t].u][tasks[t].v] = NoSetup]
                ELSE setup                                        \* KeyError
  /\ UNCHANGED <<balance, user_games, last_games, umode, upoints, expecting, limits,
                 debited, credited, settled>>
  /\ UNCHANGED <<coin_setup, coin_games, house_balance, chat_type, slots_game>>

\* "dart_cancel_<id>" (darts.py 427-433)
handler_cancel_id(t) ==
  /\ tasks[t].pc = "h"
  /\ tasks[t].d = "cancel_id"
  /\ ~in_setup(t)
  /\ IF ~HasChallenge(tasks[t].n)
       THEN /\ msgs' = [msgs EXCEPT ![tasks[t].m].screen = "done"]
            /\ Upd(heap, games, Done(t))
       ELSE /\ Upd(heap, games, Go(t, "decline_sent"))
            /\ UNCHANGED msgs
  /\ UNCHANGED <<balance, user_games, pending, last_games, setup, umode, upoints,
                 expecting, limits, debited, credited, settled>>
  /\ UNCHANGED <<coin_setup, coin_games, house_balance, chat_type, slots_game>>

\* darts.py 434-436
decline_sent(t) ==
  /\ tasks[t].pc = "decline_sent"
  /\ msgs' = [msgs EXCEPT ![tasks[t].m].screen = "declined"]
  /\ pending' = drop_challenge(tasks[t].n)
  /\ Upd(heap, games, Done(t))
  /\ UNCHANGED <<balance, user_games, last_games, setup, umode, upoints, expecting,
                 limits, debited, credited, settled>>
  /\ UNCHANGED <<coin_setup, coin_games, house_balance, chat_type, slots_game>>

\* ---------------------------------------------------------------- rematch
\* darts.py 446-449 / 491-494: the stored settings become the caller's setup
\* and start_game_against_bot runs.
rematch_bot(t, bet) ==
  LET u == tasks[t].u
      v == tasks[t].v
      last == last_games[u]
  IN /\ umode' = [umode EXCEPT ![u][v] = last.mode]
     /\ upoints' = [upoints EXCEPT ![u][v] = last.points_to_win]
     /\ setup' = [setup EXCEPT ![u][v] =
                    [initiator |-> u, bet |-> bet, message_id |-> 0]]
     /\ start_game_against_bot(t, bet, last.mode, last.points_to_win)
     /\ UNCHANGED <<pending, msgs>>

Unchanged_h(t) ==
  /\ Upd(heap, games, Done(t))
  /\ UNCHANGED <<balance, user_games, pending, setup, umode, upoints, msgs,
                 debited, credited, settled>>

\* "dart_play_again" (darts.py 438-452)
handler_play_again(t) ==
  /\ tasks[t].pc = "h"
  /\ tasks[t].d = "play_again"
  /\ ~in_setup(t)
  /\ LET last == last_games[tasks[t].u]
     IN IF last = NoLast THEN Unchanged_h(t)
        ELSE IF last.opponent = Bot THEN rematch_bot(t, last.bet)
        ELSE /\ Upd(heap, games, [tasks EXCEPT ![t].pc = "pa_member",
                                               ![t].last = last])
             /\ UNCHANGED <<balance, user_games, pending, setup, umode, upoints,
                            msgs, debited, credited, settled>>
  /\ UNCHANGED <<last_games, expecting, limits>>
  /\ UNCHANGED <<coin_setup, coin_games, house_balance, chat_type, slots_game>>

\* A rematch challenge is registered (darts.py 456-463, 506-513).
propose(t, last, bet) ==
  /\ pending' = put_challenge(Challenge(next_game_id, tasks[t].u, last.opponent,
                                        last.mode, last.points_to_win, bet))
  /\ Upd(heap, games, [tasks EXCEPT ![t].pc = "ch_sent", ![t].tag = next_game_id])

\* darts.py 453-463: the opponent's name came back.
play_again_member(t) ==
  /\ tasks[t].pc = "pa_member"
  /\ IF user_games[tasks[t].last.opponent] # NoKey
       THEN /\ Upd(heap, games, Done(t))
            /\ UNCHANGED pending
       ELSE propose(t, tasks[t].last, tasks[t].last.bet)
  /\ UNCHANGED <<balance, user_games, last_games, setup, umode, upoints, expecting,
                 msgs, limits, debited, credited, settled>>
  /\ UNCHANGED <<coin_setup, coin_games, house_balance, chat_type, slots_game>>

\* "dart_double" (darts.py 478-513)
handler_double(t) ==
  /\ tasks[t].pc = "h"
  /\ tasks[t].d = "double"
  /\ ~in_setup(t)
  /\ LET u == tasks[t].u
         last == last_games[u]
         new_bet == last.bet * 2
     IN IF last = NoLast THEN Unchanged_h(t)
        ELSE IF last.opponent = Bot
          THEN IF new_bet > balance[u] THEN Unchanged_h(t)
               ELSE rematch_bot(t, new_bet)
        ELSE IF \/ new_bet > balance[u]
                \/ new_bet > balance[last.opponent]
                \/ user_games[last.opponent] # NoKey
          THEN Unchanged_h(t)
          ELSE /\ propose(t, last, new_bet)
               /\ UNCHANGED <<balance, user_games, setup, umode, upoints, msgs,
                              debited, credited, settled>>
  /\ UNCHANGED <<last_games, expecting, limits>>
  /\ UNCHANGED <<coin_setup, coin_games, house_balance, chat_type, slots_game>>

\* darts.py 476, 527: the rematch challenge was posted.
challenge_sent(t) ==
  /\ tasks[t].pc = "ch_sent"
  /\ msgs' = Append(msgs, Message("challenge", tasks[t].v, "rematch", tasks[t].tag,
                                  0))
  /\ Upd(heap, games, Done(t))
  /\ UNCHANGED <<balance, user_games, pending, last_games, setup, umode, upoints,
                 expecting, limits, debited, credited, settled>>
  /\ UNCHANGED <<coin_setup, coin_games, house_balance, chat_type, slots_game>>

\* ------------------------------------------------------------------ Next
Callback ==
  \E t \in 1..MaxTasks, u \in Users, m \in 1..Len(msgs) :
    \E b \in Buttons(msgs[m]) : with_game_ownership_check(t, u, m, b)

Command ==
  \E t \in 1..MaxTasks, u \in Users, v \in Variants, amount \in Bets :
    game_command(t, u, v, amount)

Text ==
  \E t \in 1..MaxTasks, u \in Users, v \in Variants, target \in Users :
    text_message(t, u, v, target)

Next ==
  \/ Callback
  \/ Command
  \/ Text
  \/ \E t \in 1..MaxTasks :
       \/ command_sent(t)
       \/ handler_no_effect(t)
       \/ setup_cancel(t)
       \/ setup_mode(t)
       \/ setup_points(t)
       \/ setup_confirm(t)
       \/ setup_challenge(t)
       \/ setup_bot(t)
       \/ start_sent(t)
       \/ text_sent(t)
       \/ text_refused(t)
       \/ handler_throw(t)
       \/ \E val \in DiceValues \cup {NoSend} : player_dice(t, val)
       \/ football_after_shot(t)
       \/ football_recheck(t)
       \/ football_evaluate(t)
       \/ \E val \in DiceValues \cup {NoSend} : bot_dice(t, val)
       \/ evaluate_settle(t)
       \/ evaluate_final(t)
       \/ prompt_sent(t)
       \/ handler_accept(t)
       \/ accept_sent(t)
       \/ handler_cancel_id(t)
       \/ decline_sent(t)
       \/ handler_play_again(t)
       \/ handler_double(t)

\* The clicks of SpecAsync: throws, accepts and the two rematch buttons.
AsyncData == {"throw", "accept", "play_again", "double"}

CallbackAsync ==
  \E t \in 1..MaxTasks, u \in Users, m \in 1..Len(msgs) :
    \E b \in Buttons(msgs[m]) :
      b.d \in AsyncData /\ with_game_ownership_check(t, u, m, b)

\* Under overlapping updates evaluate_round can also find a buffer short.
\* SpecAsync: a session against the bot, darts or football, is being played.
NextAsync ==
  \/ CallbackAsync
  \/ \E t \in 1..MaxTasks :
       \/ handler_no_effect(t)
       \/ start_sent(t)
       \/ handler_throw(t)
       \/ \E val \in DiceValues \cup {NoSend} : player_dice(t, val)
       \/ football_after_shot(t)
       \/ football_recheck(t)
       \/ football_evaluate(t)
       \/ \E val \in DiceValues \cup {NoSend} : bot_dice(t, val)
       \/ evaluate_settle(t)
       \/ evaluate_final(t)
       \/ prompt_sent(t)
       \/ incomplete_reset(t)
       \/ handler_play_again(t)
       \/ handler_double(t)

\* SpecRace: a darts session against the bot is being played while a
\* challenge to its player is pending.
NextRace ==
  \/ CallbackAsync
  \/ \E t \in 1..MaxTasks :
       \/ handler_no_effect(t)
       \/ start_sent(t)
       \/ handler_throw(t)
       \/ \E val \in DiceValues \cup {NoSend} : player_dice(t, val)
       \/ \E val \in DiceValues \cup {NoSend} : bot_dice(t, val)
       \/ evaluate_settle(t)
       \/ evaluate_final(t)
       \/ prompt_sent(t)
       \/ incomplete_reset(t)
       \/ handler_accept(t)
       \/ accept_sent(t)
       \/ handler_play_again(t)
       \/ handler_double(t)

Spec == Init /\ [][Next]_vars

\* ------------------------------------------------- overlapping updates
\* The chat after "/<v> 25", the mode, the points, Confirm and "Play against
\* Bot" of user u: the session is registered and its first prompt is out.  With
\* `challenged', the other user has before that set up the same variant and
\* challenged u by name, and the challenge is still pending.
StartedChat(u, v, mode, points, challenged) ==
  LET w == CHOOSE x \in Users : x # u
      bet == CHOOSE b \in Bets : TRUE
      key == <<u, Bot>>
      first == IF challenged THEN 2 ELSE 0
  IN /\ balance = [x \in Users |-> IF x = u THEN InitBalance - bet ELSE InitBalance]
     /\ heap = <<[NewGame(u, Bot, mode, points, bet) EXCEPT !.message_id = first + 2]>>
     /\ games = [k \in Keys |-> IF k = key THEN 1 ELSE 0]
     /\ user_games = [x \in Users |-> IF x = u THEN key ELSE NoKey]
     /\ pending = IF challenged THEN {Challenge(1, w, u, mode, points, bet)} ELSE {}
     /\ last_games = [x \in Users |-> NoLast]
     /\ setup = [x \in Users |-> [y \in Variants |->
                   IF challenged /\ x = w /\ y = v
                     THEN [initiator |-> w, bet |-> bet, message_id |-> 1]
                     ELSE NoSetup]]
     /\ umode = [x \in Users |-> [y \in Variants |->
                   IF y = v /\ (x = u \/ challenged) THEN mode ELSE "none"]]
     /\ upoints = [x \in Users |-> [y \in Variants |->
                     IF y = v /\ (x = u \/ challenged) THEN points ELSE 0]]
     /\ expecting = [x \in Users |-> FALSE]
     /\ msgs = (IF challenged
                  THEN <<Message("setup", v, "choose", 0, 0),
                         Message("challenge", v, "open", 1, 0)>>
                  ELSE <<>>)
               \o <<Message("setup", v, "choose", 0, 0), Message("throw", v, "open", 1, 1)>>
     /\ tasks = [t \in 1..MaxTasks |-> IdleTask]
     /\ debited = <<bet>>
     /\ credited = <<0>>
     /\ settled = <<0>>
     /\ coin_setup = [x \in Users |-> NoCoinSetup]
     /\ coin_games = [x \in Users |-> NoCoinGame]
     /\ house_balance = 0
     /\ chat_type = "private"
     /\ slots_game = [x \in Users |-> NoSlots]

Starter == CHOOSE u \in Users : TRUE

InitAsync ==
  /\ \E v \in Variants, mode \in Modes, points \in 1..MaxPoints :
       StartedChat(Starter, v, mode, points, FALSE)
  /\ limits = [tasks |-> MaxTasks, msgs |-> Len(msgs) + MaxNewMsg,
               matches |-> MaxMatchesAsync, typed |-> 0]

InitRace ==
  /\ StartedChat(Starter, "dart", "normal", 1, TRUE)
  /\ limits = [tasks |-> MaxTasks, msgs |-> Len(msgs) + MaxNewMsgRace,
               matches |-> MaxMatchesRace, typed |-> 0]

SpecAsync == InitAsync /\ [][NextAsync]_vars
SpecRace == InitRace /\ [][NextRace]_vars

\* The chat after user u has gone through the setup dialogue (command, mode,
\* points, confirm): the menu shows "Challenge" and "Play vs Bot".  The other
\* user's balance is funds.
ProposingChat(u, v, mode, points, funds) ==
  LET bet == CHOOSE b \in Bets : TRUE
  IN /\ balance = [x \in Users |-> IF x = u THEN InitBalance ELSE funds]
     /\ heap = <<>>
     /\ games = [k \in Keys |-> 0]
     /\ user_games = [x \in Users |-> NoKey]
     /\ pending = {}
     /\ last_games = [x \in Users |-> NoLast]
     /\ setup = [x \in Users |-> [y \in Variants |->
                   IF x = u /\ y = v
                     THEN [initiator |-> u, bet |-> bet, message_id |-> 1]
                     ELSE NoSetup]]
     /\ umode = [x \in Users |-> [y \in Variants |->
                   IF x = u /\ y = v THEN mode ELSE "none"]]
     /\ upoints = [x \in Users |-> [y \in Variants |->
                     IF x = u /\ y = v THEN points ELSE 0]]
     /\ expecting = [x \in Users |-> FALSE]
     /\ msgs = <<Message("setup", v, "choose", 0, 0)>>
     /\ tasks = [t \in 1..MaxTasks |-> IdleTask]
     /\ debited = <<>>
     /\ credited = <<>>
     /\ settled = <<>>
     /\ coin_setup = [x \in Users |-> NoCoinSetup]
     /\ coin_games = [x \in Users |-> NoCoinGame]
     /\ house_balance = 0
     /\ chat_type = "private"
     /\ slots_game = [x \in Users |-> NoSlots]

InitChallenge ==
  /\ \E v \in Variants, mode \in Modes, points \in 1..MaxPoints,
        funds \in {LowBalance, InitBalance} :
       ProposingChat(Starter, v, mode, points, funds)
  /\ limits = [tasks |-> MaxTasks, msgs |-> Len(msgs) + MaxNewMsgChallenge,
               matches |-> MaxMatchesChallenge, typed |-> MaxChallengesAsync]

\* The clicks of SpecChallenge: the "Challenge" button of the menu, the two
\* buttons of a challenge and the throw button of a prompt.
ChallengeData == {"challenge", "accept", "cancel_id", "throw"}

CallbackChallenge ==
  \E t \in 1..MaxTasks, u \in Users, m \in 1..Len(msgs) :
    \E b \in Buttons(msgs[m]) :
      b.d \in ChallengeData /\ with_game_ownership_check(t, u, m, b)

\* SpecChallenge: challenges are proposed, accepted and declined.
NextChallenge ==
  \/ CallbackChallenge
  \/ Text
  \/ \E t \in 1..MaxTasks :
       \/ handler_no_effect(t)
       \/ setup_challenge(t)
       \/ text_sent(t)
       \/ text_refused(t)
       \/ handler_accept(t)
       \/ accept_sent(t)
       \/ handler_cancel_id(t)
       \/ decline_sent(t)
       \/ handler_throw(t)

SpecChallenge == InitChallenge /\ [][NextChallenge]_vars

\* ------------------------------------------------------------------ coin.py
\* create_game_handler (main.py 208-251) calling coin_command (coin.py 16-42)
\* up to the send of the side menu.
coin_command(t, u, amount) ==
  /\ Admit(t)
  /\ amount > 0
  /\ amount <= balance[u]
  /\ coin_games[u] = NoCoinGame
  /\ coin_setup' = [coin_setup EXCEPT ![u] =
                      [initiator |-> u, bet |-> amount, message_id |-> 0,
                       choice |-> "none"]]
  /\ Upd(heap, games,
         [tasks EXCEPT ![t] = [IdleTask EXCEPT !.pc = "coin_cmd_sent",
                                               !.v = "coin", !.u = u]])
  /\ UNCHANGED <<balance, user_games, pending, last_games, setup, umode, upoints,
                 expecting, msgs, limits, debited, credited, settled, coin_games>>
  /\ house_balance' = house_after(amount)
  /\ UNCHANGED <<chat_type, slots_game>>

\* coin.py 50-51, 211-212, 235-236: the side menu was sent, its message id is
\* stored in the setup.
coin_command_sent(t) ==
  /\ tasks[t].pc = "coin_cmd_sent"
  /\ LET u == tasks[t].u
         id == Len(msgs) + 1
     IN /\ msgs' = Append(msgs, Message("coin", "coin", "side", 0, 0))
        /\ coin_setup' = IF coin_setup[u] = NoCoinSetup THEN coin_setup \* KeyError
                         ELSE [coin_setup EXCEPT ![u].message_id = id]
  /\ Upd(heap, games, Done(t))
  /\ UNCHANGED <<balance, user_games, pending, last_games, setup, umode, upoints,
                 expecting, limits, debited, credited, settled, coin_games>>
  /\ UNCHANGED <<house_balance, chat_type, slots_game>>

\* coin.py 66, 72, 92, 111: a setup exists, the caller is its initiator and the
\* click is on its message.
coin_setup_ok(t) ==
  /\ coin_setup[tasks[t].u].initiator = tasks[t].u
  /\ coin_setup[tasks[t].u].message_id = tasks[t].m

CoinSetupData == {"coin_cancel", "coin_side", "coin_confirm", "coin_bot"}

\* coin.py 133-134: the caller has a match and the click is on its message.
coin_flip_ok(t) ==
  /\ coin_games[tasks[t].u] # NoCoinGame
  /\ coin_games[tasks[t].u].match_message_id = tasks[t].m

\* coin.py 194-199, 217-223: the wager a rematch would use (0: refused).
coin_rematch_bet(t) ==
  LET prior == coin_setup[tasks[t].u].bet
      bet == IF tasks[t].d = "coin_double" THEN 2 * prior ELSE prior
  IN IF prior = 0 \/ bet > balance[tasks[t].u] THEN 0 ELSE bet

\* The handler answers or returns and changes nothing (coin.py 69, 73-74,
\* 93-94, 112-113, 135-136, 198-199, 214, 222-223, 238).
coin_no_effect(t) ==
  /\ tasks[t].pc = "h"
  /\ \/ tasks[t].d \in CoinSetupData /\ ~coin_setup_ok(t)
     \/ tasks[t].d = "coin_flip" /\ ~coin_flip_ok(t)
     \/ tasks[t].d \in {"coin_restart", "coin_double"} /\ coin_rematch_bet(t) = 0
  /\ Upd(heap, games, Done(t))
  /\ UNCHANGED <<balance, user_games, pending, last_games, setup, umode, upoints,
                 expecting, msgs, limits, debited, credited, settled, coin_setup,
                 coin_games>>
  /\ UNCHANGED <<house_balance, chat_type, slots_game>>

\* "coin_cancel" (coin.py 65-69)
coin_cancel(t) ==
  /\ tasks[t].pc = "h"
  /\ tasks[t].d = "coin_cancel"
  /\ coin_setup_ok(t)
  /\ coin_setup' = [coin_setup EXCEPT ![tasks[t].u] = NoCoinSetup]
  /\ msgs' = [msgs EXCEPT ![tasks[t].m].screen = "done"]
  /\ Upd(heap, games, Done(t))
  /\ UNCHANGED <<balance, user_games, pending, last_games, setup, umode, upoints,
                 expecting, limits, debited, credited, settled, coin_games>>
  /\ UNCHANGED <<house_balance, chat_type, slots_game>>

\* "coin_heads" / "coin_tails" (coin.py 71-89)
coin_side(t) ==
  /\ tasks[t].pc = "h"
  /\ tasks[t].d = "coin_side"
  /\ coin_setup_ok(t)
  /\ coin_setup' = [coin_setup EXCEPT ![tasks[t].u].choice = tasks[t].mode]
  /\ msgs' = [msgs EXCEPT ![tasks[t].m].screen = "confirm"]
  /\ Upd(heap, games, Done(t))
  /\ UNCHANGED <<balance, user_games, pending, last_games, setup, umode, upoints,
                 expecting, limits, debited, credited, settled, coin_games>>
  /\ UNCHANGED <<house_balance, chat_type, slots_game>>

\* "coin_confirm" (coin.py 91-108)
coin_confirm(t) ==
  /\ tasks[t].pc = "h"
  /\ tasks[t].d = "coin_confirm"
  /\ coin_setup_ok(t)
  /\ msgs' = [msgs EXCEPT ![tasks[t].m].screen = "choose"]
  /\ Upd(heap, games, Done(t))
  /\ UNCHANGED <<balance, user_games, pending, last_games, setup, umode, upoints,
                 expecting, limits, debited, credited, settled, coin_setup,
                 coin_games>>
  /\ UNCHANGED <<house_balance, chat_type, slots_game>>

\* "coin_bot" (coin.py 110-124): the checks, bet and choice are read, then the
\* handler awaits the edit of the message.
coin_bot(t) ==
  /\ tasks[t].pc = "h"
  /\ tasks[t].d = "coin_bot"
  /\ coin_setup_ok(t)
  /\ Upd(heap, games,
         [tasks EXCEPT ![t].pc = "coin_bot_edit",
                       ![t].n = coin_setup[tasks[t].u].bet,
                       ![t].mode = coin_setup[tasks[t].u].choice])
  /\ UNCHANGED <<balance, user_games, pending, last_games, setup, umode, upoints,
                 expecting, msgs, limits, debited, credited, settled, coin_setup,
                 coin_games>>
  /\ UNCHANGED <<house_balance, chat_type, slots_game>>

\* coin.py 125-130: the match is registered and the setup deleted.  No balance
\* is written.
coin_bot_registered(t) ==
  /\ tasks[t].pc = "coin_bot_edit"
  /\ LET u == tasks[t].u
     IN /\ coin_games' = [coin_games EXCEPT ![u] =
                            [bet |-> tasks[t].n, choice |-> tasks[t].mode,
                             match_message_id |-> tasks[t].m,
                             before |-> balance[u]]]
        /\ coin_setup' = [coin_setup EXCEPT ![u] = NoCoinSetup]
  /\ msgs' = [msgs EXCEPT ![tasks[t].m].screen = "match"]
  /\ Upd(heap, games, Done(t))
  /\ UNCHANGED <<balance, user_games, pending, last_games, setup, umode, upoints,
                 expecting, limits, debited, credited, settled>>
  /\ UNCHANGED <<house_balance, chat_type, slots_game>>

\* "coin_flip" (coin.py 132-137): the checks, then the handler sleeps holding
\* the match dict.
coin_flip(t) ==
  /\ tasks[t].pc = "h"
  /\ tasks[t].d = "coin_flip"
  /\ coin_flip_ok(t)
  /\ Upd(heap, games,
         [tasks EXCEPT ![t].pc = "coin_sleep",
                       ![t].n = coin_games[tasks[t].u].bet,
                       ![t].mode = coin_games[tasks[t].u].choice])
  /\ UNCHANGED <<balance, user_games, pending, last_games, setup, umode, upoints,
                 expecting, msgs, limits, debited, credited, settled, coin_setup,
                 coin_games>>
  /\ UNCHANGED <<house_balance, chat_type, slots_game>>

\* coin.py 157-169: the balance after the flip, read and written in one go.
coin_new_balance(b, bet, win) ==
  IF win THEN b + (bet * PrizePercent) \div 100 - bet ELSE b - bet

\* coin.py 139-175: the coin lands (win: on the player's side) and the balance
\* is written; the handler then awaits the send of the outcome.
coin_flip_settle(t, win) ==
  /\ tasks[t].pc = "coin_sleep"
  /\ balance' = [balance EXCEPT ![tasks[t].u] = coin_new_balance(@, tasks[t].n, win)]
  /\ Upd(heap, games, Go(t, "coin_sent"))
  /\ UNCHANGED <<user_games, pending, last_games, setup, umode, upoints,
                 expecting, msgs, limits, debited, credited, settled, coin_setup,
                 coin_games>>
  /\ UNCHANGED <<house_balance, chat_type, slots_game>>

\* coin.py 177-191: the outcome was sent with the rematch buttons, the bet is
\* kept for them and the match is deleted.
coin_flip_sent(t) ==
  /\ tasks[t].pc = "coin_sent"
  /\ LET u == tasks[t].u
     IN /\ coin_setup' = [coin_setup EXCEPT ![u] =
                            [NoCoinSetup EXCEPT !.bet = tasks[t].n]]
        /\ coin_games' = [coin_games EXCEPT ![u] = NoCoinGame]
  /\ msgs' = Append(msgs, Message("coin", "coin", "over", tasks[t].n, 0))
  /\ Upd(heap, games, Done(t))
  /\ UNCHANGED <<balance, user_games, pending, last_games, setup, umode, upoints,
                 expecting, limits, debited, credited, settled>>
  /\ UNCHANGED <<house_balance, chat_type, slots_game>>

\* "coin_restart" / "coin_double" (coin.py 193-210, 216-234): a new setup with
\* the prior or the doubled bet, then the send of the side menu.
coin_rematch(t) ==
  /\ tasks[t].pc = "h"
  /\ tasks[t].d \in {"coin_restart", "coin_double"}
  /\ coin_rematch_bet(t) # 0
  /\ coin_setup' = [coin_setup EXCEPT ![tasks[t].u] =
                      [initiator |-> tasks[t].u, bet |-> coin_rematch_bet(t),
                       message_id |-> 0, choice |-> "none"]]
  /\ Upd(heap, games, Go(t, "coin_cmd_sent"))
  /\ UNCHANGED <<balance, user_games, pending, last_games, setup, umode, upoints,
                 expecting, msgs, limits, debited, credited, settled, coin_games>>
  /\ UNCHANGED <<house_balance, chat_type, slots_game>>

CoinData == CoinSetupData \cup {"coin_flip", "coin_restart", "coin_double"}

CoinCommand ==
  \E t \in 1..MaxTasks, u \in Users, amount \in Bets : coin_command(t, u, amount)

CallbackCoin ==
  \E t \in 1..MaxTasks, u \in Users, m \in 1..Len(msgs) :
    \E b \in Buttons(msgs[m]) :
      b.d \in CoinData /\ with_game_ownership_check(t, u, m, b)

\* SpecCoin: coin matches against the bot in a fresh chat.
InitCoin ==
  Fresh([tasks |-> MaxTasks, msgs |-> MaxMsgCoin, matches |-> 0, typed |-> 0])

NextCoin ==
  \/ CoinCommand
  \/ CallbackCoin
  \/ \E t \in 1..MaxTasks :
       \/ coin_command_sent(t)
       \/ coin_no_effect(t)
       \/ coin_cancel(t)
       \/ coin_side(t)
       \/ coin_confirm(t)
       \/ coin_bot(t)
       \/ coin_bot_registered(t)
       \/ coin_flip(t)
       \/ \E win \in BOOLEAN : coin_flip_settle(t, win)
       \/ coin_flip_sent(t)
       \/ coin_rematch(t)

SpecCoin == InitCoin /\ [][NextCoin]_vars

\* ------------------------------------------------- commands as typed
\* A word of a command line: a decimal number or another word.
Num(n) == [word |-> "", num |-> n]
Word(w) == [word |-> w, num |-> 0]

\* The argument lists typed after /dart, /football and /coin.  ("half" is left
\* out: balance / 2 need not be a whole amount.)
ArgLists ==
  {<<>>, <<Num(25)>>, <<Num(0)>>, <<Num(500)>>, <<Word("all")>>, <<Word("abc")>>,
   <<Num(25), Word("x")>>}

\* main.py 216-238: the bet create_game_handler reads from the first argument
\* (-1: no argument, or Decimal() raises on the word).
wrapper_amount(args, bal) ==
  IF args = <<>> THEN -1
  ELSE IF args[1].word = "all" THEN bal
  ELSE IF args[1].word # "" THEN -1
  ELSE args[1].num

\* main.py 239-244: create_game_handler goes on to the house balance and the
\* game's command handler.
wrapper_passes(args, bal) ==
  /\ wrapper_amount(args, bal) > 0
  /\ wrapper_amount(args, bal) <= bal

\* darts.py 156-165, coin.py 25-34: the checks of the command line that all
\* three command handlers make.
args_refused(args, bal) ==
  \/ Len(args) # 1
  \/ args[1].word # ""          \* float() raises ValueError
  \/ args[1].num <= 0
  \/ args[1].num > bal

\* A validation that forgets the caller's session.
game_refused_no_session(u, args) == args_refused(args, balance[u])

\* dart_command (darts.py 156-170), football_command (football.py 127-141)
game_refused(u, args) ==
  \/ args_refused(args, balance[u])
  \/ user_games[u] # NoKey

\* A validation that forgets the caller's coin match.
coin_refused_no_match(u, args) == args_refused(args, balance[u])

\* coin_command (coin.py 21-34)
coin_refused(u, args) ==
  \/ coin_games[u] # NoCoinGame
  \/ args_refused(args, balance[u])

\* The house balance after create_game_handler (main.py 239-249).
house_after_command(args, bal) ==
  IF wrapper_passes(args, bal) THEN house_after(wrapper_amount(args, bal))
  ELSE house_balance

CommandTask(t, pc, u, v, args) ==
  [tasks EXCEPT ![t] = [IdleTask EXCEPT !.pc = pc, !.v = v, !.u = u, !.args = args]]

\* create_game_handler (main.py 208-251) calling dart_command (darts.py
\* 147-188) or football_command on any argument list, up to the send of the
\* mode menu or of the refusal.
game_command_args(t, u, v, args) ==
  /\ Admit(t)
  /\ house_after_command(args, balance[u]) <= MaxHouse
  /\ house_balance' = house_after_command(args, balance[u])
  /\ IF wrapper_passes(args, balance[u]) /\ ~game_refused(u, args)
       THEN /\ setup' = [setup EXCEPT ![u][v] =
                           [initiator |-> u, bet |-> args[1].num, message_id |-> 0]]
            /\ Upd(heap, games, CommandTask(t, "cmd_sent", u, v, args))
       ELSE /\ setup' = setup
            /\ Upd(heap, games, CommandTask(t, "cmd_refused", u, v, args))
  /\ UNCHANGED <<balance, user_games, pending, last_games, umode, upoints,
                 expecting, msgs, limits, debited, credited, settled, coin_setup,
                 coin_games, chat_type, slots_game>>

\* create_game_handler (main.py 208-251) calling coin_command (coin.py 16-50)
\* on any argument list.
coin_command_args(t, u, args) ==
  /\ Admit(t)
  /\ house_after_command(args, balance[u]) <= MaxHouse
  /\ house_balance' = house_after_command(args, balance[u])
  /\ IF wrapper_passes(args, balance[u]) /\ ~coin_refused(u, args)
       THEN /\ coin_setup' = [coin_setup EXCEPT ![u] =
                                [initiator |-> u, bet |-> args[1].num,
                                 message_id |-> 0, choice |-> "none"]]
            /\ Upd(heap, games, CommandTask(t, "coin_cmd_sent", u, "coin", args))
       ELSE /\ coin_setup' = coin_setup
            /\ Upd(heap, games, CommandTask(t, "cmd_refused", u, "coin", args))
  /\ UNCHANGED <<balance, user_games, pending, last_games, setup, umode, upoints,
                 expecting, msgs, limits, debited, credited, settled, coin_games,
                 chat_type, slots_game>>

\* The help or the refusal was sent (main.py 214, 225, 237, 240, 243, darts.py
\* 157, 166, 169, 192, coin.py 54), or Decimal() raised: the handler is over.
command_refused(t) ==
  /\ tasks[t].pc = "cmd_refused"
  /\ Upd(heap, games, Done(t))
  /\ UNCHANGED <<balance, user_games, pending, last_games, setup, umode, upoints,
                 expecting, msgs, limits, debited, credited, settled, coin_setup,
                 coin_games, house_balance, chat_type, slots_game>>

CommandArgs ==
  \E t \in 1..MaxTasks, u \in Users, v \in Variants, args \in ArgLists :
    game_command_args(t, u, v, args)

CoinCommandArgs ==
  \E t \in 1..MaxTasks, u \in Users, args \in ArgLists : coin_command_args(t, u, args)

\* The clicks of SpecCommand: the buttons of the setup dialogues.
CommandData ==
  {"mode", "points", "confirm_setup", "cancel", "bot"} \cup CoinSetupData

CallbackCommand ==
  \E t \in 1..MaxTasks, u \in Users, m \in 1..Len(msgs) :
    \E b \in Buttons(msgs[m]) :
      b.d \in CommandData /\ with_game_ownership_check(t, u, m, b)

\* SpecCommand: commands are typed, in a private or a group chat, and the setup
\* dialogues are gone through up to the start of a match against the bot.  The
\* chat is fresh, or a darts match against the bot has been started in it.
InitCommand ==
  \/ \E type \in {"private", "group"} :
       FreshIn([tasks |-> MaxTasksCommand, msgs |-> MaxMsgCommand,
                matches |-> MaxMatchesCommand, typed |-> 0], type)
  \/ /\ StartedChat(Starter, "dart", "normal", 1, FALSE)
     /\ limits = [tasks |-> MaxTasksCommand, msgs |-> Len(msgs) + MaxNewMsgCommand,
                  matches |-> MaxMatchesCommand, typed |-> 0]

NextCommand ==
  \/ CommandArgs
  \/ CoinCommandArgs
  \/ CallbackCommand
  \/ \E t \in 1..MaxTasks :
       \/ command_sent(t)
       \/ coin_command_sent(t)
       \/ command_refused(t)
       \/ handler_no_effect(t)
       \/ setup_cancel(t)
       \/ setup_mode(t)
       \/ setup_points(t)
       \/ setup_confirm(t)
       \/ setup_bot(t)
       \/ start_sent(t)
       \/ coin_no_effect(t)
       \/ coin_cancel(t)
       \/ coin_side(t)
       \/ coin_confirm(t)
       \/ coin_bot(t)
       \/ coin_bot_registered(t)

SpecCommand == InitCommand /\ [][NextCommand]_vars

\* ------------------------------------------------- after a finished match
\* The chat after a match of bet `bet' that user u lost, against the bot
\* (o = Bot) or against user o whom u had challenged: the session is released,
\* last_games holds the summary and the final message offers "Play again" and
\* "Double".  fu and fo are the balances u and the other user have by now.
\* With `leftover' the setup u challenged with is still in u's user_data.
FinishedChat(u, o, v, bet, fu, fo, leftover) ==
  LET g == NewGame(u, o, "normal", 1, bet)
  IN /\ balance = [x \in Users |-> IF x = u THEN fu ELSE fo]
     /\ heap = <<NoGame>>
     /\ games = [k \in Keys |-> 0]
     /\ user_games = [x \in Users |-> NoKey]
     /\ pending = {}
     /\ last_games = record_last_games([x \in Users |-> NoLast], g)
     /\ setup = [x \in Users |-> [y \in Variants |->
                   IF leftover /\ x = u /\ y = v
                     THEN [initiator |-> u, bet |-> bet, message_id |-> 1]
                     ELSE NoSetup]]
     /\ umode = [x \in Users |-> [y \in Variants |->
                   IF x = u /\ y = v THEN "normal" ELSE "none"]]
     /\ upoints = [x \in Users |-> [y \in Variants |->
                     IF x = u /\ y = v THEN 1 ELSE 0]]
     /\ expecting = [x \in Users |-> FALSE]
     /\ msgs = <<Message("final", v, "open", 0, 1)>>
     /\ tasks = [t \in 1..MaxTasks |-> IdleTask]
     /\ debited = <<IF o = Bot THEN bet ELSE 2 * bet>>
     /\ credited = <<IF o = Bot THEN 0 ELSE settlement_credit(g)>>
     /\ settled = <<1>>
     /\ coin_setup = [x \in Users |-> NoCoinSetup]
     /\ coin_games = [x \in Users |-> NoCoinGame]
     /\ house_balance = 0
     /\ chat_type = "private"
     /\ slots_game = [x \in Users |-> NoSlots]

\* SpecRematch: the rematch buttons of a finished match are clicked.
InitRematch ==
  /\ \E o \in (Users \ {Starter}) \cup {Bot}, v \in Variants, bet \in Bets,
        fu \in {LowBalance, InitBalance}, fo \in {LowBalance, InitBalance},
        leftover \in BOOLEAN :
       /\ leftover => o # Bot
       /\ FinishedChat(Starter, o, v, bet, fu, fo, leftover)
  /\ limits = [tasks |-> MaxTasks, msgs |-> Len(msgs) + MaxNewMsgRematch,
               matches |-> Len(heap) + MaxMatchesRematch, typed |-> 0]

RematchData == {"play_again", "double"}

CallbackRematch ==
  \E t \in 1..MaxTasks, u \in Users, m \in 1..Len(msgs) :
    \E b \in Buttons(msgs[m]) :
      b.d \in RematchData /\ with_game_ownership_check(t, u, m, b)

NextRematch ==
  \/ CallbackRematch
  \/ \E t \in 1..MaxTasks :
       \/ handler_no_effect(t)
       \/ handler_play_again(t)
       \/ play_again_member(t)
       \/ handler_double(t)
       \/ challenge_sent(t)
       \/ start_sent(t)

SpecRematch == InitRematch /\ [][NextRematch]_vars

\* ------------------------------------------------- the scoring of a round
\* The values a dice message can show: a dart 1..6, a football shot 1..5.
FacesOf(v) == IF v = "dart" THEN 1..MaxFace ELSE 1..MaxShot

\* The throws of one turn.
TurnsOf(v, mode) ==
  IF mode = "double" THEN {<<a, b>> : a \in FacesOf(v), b \in FacesOf(v)}
  ELSE {<<a>> : a \in FacesOf(v)}

\* A match against the bot in which user u has just completed the turn with
\* the throws r1 and the handler is about to send the bot's dice (darts.py
\* 357-362, football.py 347-352).
ScoringChat(u, v, mode, points, bet, r1) ==
  LET g == [NewGame(u, Bot, mode, points, bet) EXCEPT
              !.rolls.player1 = r1,
              !.roll_count.player1 = Len(r1),
              !.current_player = "player2",
              !.message_id = Len(r1) + 1]
  IN /\ balance = [x \in Users |-> IF x = u THEN InitBalance - bet ELSE InitBalance]
     /\ heap = <<g>>
     /\ games = [k \in Keys |-> IF k = <<u, Bot>> THEN 1 ELSE 0]
     /\ user_games = [x \in Users |-> IF x = u THEN <<u, Bot>> ELSE NoKey]
     /\ pending = {}
     /\ last_games = [x \in Users |-> NoLast]
     /\ setup = [x \in Users |-> [y \in Variants |-> NoSetup]]
     /\ umode = [x \in Users |-> [y \in Variants |->
                   IF x = u /\ y = v THEN mode ELSE "none"]]
     /\ upoints = [x \in Users |-> [y \in Variants |->
                     IF x = u /\ y = v THEN points ELSE 0]]
     /\ expecting = [x \in Users |-> FALSE]
     /\ msgs = <<Message("setup", v, "choose", 0, 0)>>
               \o [i \in 1..Len(r1) |->
                     [Message("throw", v, "open", 1, 1) EXCEPT !.hits = 1]]
     /\ tasks = [t \in 1..MaxTasks |->
                   IF t = 1
                     THEN [IdleTask EXCEPT !.pc = "botdice", !.v = v, !.u = u,
                                           !.m = Len(r1) + 1, !.d = "throw", !.n = 1,
                                           !.o = 1, !.key = <<u, Bot>>,
                                           !.botn = Len(r1)]
                     ELSE IdleTask]
     /\ debited = <<bet>>
     /\ credited = <<0>>
     /\ settled = <<0>>
     /\ coin_setup = [x \in Users |-> NoCoinSetup]
     /\ coin_games = [x \in Users |-> NoCoinGame]
     /\ house_balance = 0
     /\ chat_type = "private"
     /\ slots_game = [x \in Users |-> NoSlots]

\* SpecScore: the bot answers a completed turn with every value its dice can
\* show and the round is evaluated.
InitScore ==
  /\ \E v \in Variants, mode \in Modes, points \in 1..MaxPoints, bet \in Bets :
       \E r1 \in TurnsOf(v, mode) : ScoringChat(Starter, v, mode, points, bet, r1)
  /\ limits = [tasks |-> MaxTasks, msgs |-> Len(msgs) + MaxNewMsg,
               matches |-> MaxMatches, typed |-> 0]

NextScore ==
  \E t \in 1..MaxTasks :
    \/ \E val \in FacesOf(tasks[t].v) : bot_dice(t, val)
    \/ football_recheck(t)
    \/ football_evaluate(t)
    \/ evaluate_settle(t)
    \/ evaluate_final(t)
    \/ prompt_sent(t)

SpecScore == InitScore /\ [][NextScore]_vars

\* ------------------------------------------------- two variants in a chat
\* The chat in which user u lost a match of variant w against the bot and
\* then started a match of variant v against the bot: the messages of the
\* first match keep their buttons, 'last_games' holds its summary and the
\* second session waits for u's first throw.
VariantChat(u, w, v, mode, points, bet) ==
  LET old == NewGame(u, Bot, "normal", 1, bet)
      g == [NewGame(u, Bot, mode, points, bet) EXCEPT !.message_id = 5]
  IN /\ balance = [x \in Users |-> IF x = u THEN InitBalance - 2 * bet
                                   ELSE InitBalance]
     /\ heap = <<NoGame, g>>
     /\ games = [k \in Keys |-> IF k = <<u, Bot>> THEN 2 ELSE 0]
     /\ user_games = [x \in Users |-> IF x = u THEN <<u, Bot>> ELSE NoKey]
     /\ pending = {}
     /\ last_games = record_last_games([x \in Users |-> NoLast], old)
     /\ setup = [x \in Users |-> [y \in Variants |-> NoSetup]]
     /\ umode = [x \in Users |-> [y \in Variants |->
                   IF x # u THEN "none"
                   ELSE IF y = v THEN mode
                   ELSE IF y = w THEN "normal" ELSE "none"]]
     /\ upoints = [x \in Users |-> [y \in Variants |->
                     IF x # u THEN 0
                     ELSE IF y = v THEN points
                     ELSE IF y = w THEN 1 ELSE 0]]
     /\ expecting = [x \in Users |-> FALSE]
     /\ msgs = <<Message("setup", w, "choose", 0, 0),
                 [Message("throw", w, "open", 1, 1) EXCEPT !.hits = 1],
                 Message("final", w, "open", 0, 1),
                 Message("setup", v, "choose", 0, 0),
                 Message("throw", v, "open", 1, 2)>>
     /\ tasks = [t \in 1..MaxTasks |-> IdleTask]
     /\ debited = <<bet, bet>>
     /\ credited = <<0, 0>>
     /\ settled = <<1, 0>>
     /\ coin_setup = [x \in Users |-> NoCoinSetup]
     /\ coin_games = [x \in Users |-> NoCoinGame]
     /\ house_balance = 0
     /\ chat_type = "private"
     /\ slots_game = [x \in Users |-> NoSlots]

\* SpecVariant: the throw buttons of both matches are clicked, one update at
\* a time.
InitVariant ==
  /\ \E w \in Variants, v \in Variants, mode \in Modes, points \in 1..MaxPoints,
        bet \in Bets :
       VariantChat(Starter, w, v, mode, points, bet)
  /\ limits = [tasks |-> 1, msgs |-> Len(msgs) + MaxNewMsgVariant,
               matches |-> Len(heap), typed |-> 0]

CallbackVariant ==
  \E t \in 1..MaxTasks, u \in Users, m \in 1..Len(msgs) :
    \E b \in Buttons(msgs[m]) :
      b.d = "throw" /\ with_game_ownership_check(t, u, m, b)

NextVariant ==
  \/ CallbackVariant
  \/ \E t \in 1..MaxTasks :
       \/ handler_throw(t)
       \/ \E val \in DiceValues : player_dice(t, val)
       \/ football_after_shot(t)
       \/ football_recheck(t)
       \/ football_evaluate(t)
       \/ \E val \in DiceValues : bot_dice(t, val)
       \/ evaluate_settle(t)
       \/ evaluate_final(t)
       \/ prompt_sent(t)

SpecVariant == InitVariant /\ [][NextVariant]_vars

\* ------------------------------------------------------------- slots.py
\* Amounts are in sixteenths of a dollar, in which every bet size and every
\* payout of the game is a whole number; multipliers are in quarters.
Symbols == <<"chocolate", "grapes", "lemon", "seven">>

\* slots.py 6-14
get_combo_parts(dice_value) ==
  LET d == dice_value - 1
  IN <<Symbols[(d % 4) + 1], Symbols[((d \div 4) % 4) + 1],
       Symbols[((d \div 16) % 4) + 1]>>

\* A payout that looks at the first two symbols only.
get_payout_two_symbols(symbols) ==
  LET s1 == symbols[1]
      s2 == symbols[2]
  IN IF s1 = "seven" /\ s2 = "seven" THEN 8
     ELSE IF s1 = s2 THEN (IF s1 = "chocolate" THEN 2 ELSE 1)
     ELSE 0

\* slots.py 16-39, in quarters
get_payout(symbols) ==
  LET s1 == symbols[1]
      s2 == symbols[2]
      s3 == symbols[3]
  IN IF s1 = "seven" /\ s2 = "seven" /\ s3 = "seven" THEN 80
     ELSE IF s1 = s2 /\ s2 = s3
       THEN (IF s1 \in {"chocolate", "lemon", "grapes"} THEN 28 ELSE 0)
     ELSE IF s1 = "seven" /\ s2 = "seven" THEN 8
     ELSE IF s2 = "seven" /\ s3 = "seven" THEN 4
     ELSE IF s1 = s2
       THEN (IF s1 = "chocolate" THEN 2
             ELSE IF s1 \in {"lemon", "grapes"} THEN 1 ELSE 0)
     ELSE 0

\* slots.py 179-194: the combinations the "Combos" button displays, with
\* their multipliers in quarters; "any" stands for the question mark.
ComboTable ==
  {[p |-> <<"seven", "seven", "seven">>, x |-> 80],
   [p |-> <<"chocolate", "chocolate", "chocolate">>, x |-> 28],
   [p |-> <<"lemon", "lemon", "lemon">>, x |-> 28],
   [p |-> <<"grapes", "grapes", "grapes">>, x |-> 28],
   [p |-> <<"seven", "seven", "any">>, x |-> 8],
   [p |-> <<"any", "seven", "seven">>, x |-> 4],
   [p |-> <<"chocolate", "chocolate", "any">>, x |-> 2],
   [p |-> <<"lemon", "lemon", "any">>, x |-> 1],
   [p |-> <<"grapes", "grapes", "any">>, x |-> 1]}

\* A "-1" that does not stop at the lowest bet size.
adjusted_bet_no_floor(d, bet_size) ==
  IF d = "slots_bet_-1" THEN bet_size - Dollar
  ELSE IF d = "slots_bet_+1" THEN (IF bet_size + Dollar > MaxBet THEN MaxBet
                                   ELSE bet_size + Dollar)
  ELSE IF d = "slots_bet_min" THEN MinBet
  ELSE IF d = "slots_bet_double" THEN (IF 2 * bet_size > MaxBet THEN MaxBet
                                       ELSE 2 * bet_size)
  ELSE MaxBet

\* slots.py 146-158
adjusted_bet(d, bet_size) ==
  IF d = "slots_bet_-1" THEN Max2(MinBet, bet_size - Dollar)
  ELSE IF d = "slots_bet_+1" THEN (IF bet_size + Dollar > MaxBet THEN MaxBet
                                   ELSE bet_size + Dollar)
  ELSE IF d = "slots_bet_min" THEN MinBet
  ELSE IF d = "slots_bet_double" THEN (IF 2 * bet_size > MaxBet THEN MaxBet
                                       ELSE 2 * bet_size)
  ELSE MaxBet

\* What the actions of slots leave alone.
SlotsFrame ==
  UNCHANGED <<user_games, pending, last_games, setup, umode, upoints, expecting,
              limits, debited, credited, settled, coin_setup, coin_games,
              house_balance, chat_type>>

\* A click on a button of the slots menu arrives (main.py 596-599).
slots_click(t, u, m, b) ==
  /\ Admit(t)
  /\ Upd(heap, games,
         [tasks EXCEPT ![t] = [IdleTask EXCEPT !.pc = "slots_w", !.v = "slots",
                                               !.u = u, !.m = m, !.d = b.d]])
  /\ UNCHANGED <<balance, msgs, slots_game>>
  /\ SlotsFrame

\* with_game_ownership_check(handler, 'slots_game'), main.py 616-623
slots_wrapper(t) ==
  /\ tasks[t].pc = "slots_w"
  /\ LET game == slots_game[tasks[t].u]
     IN IF game = NoSlots \/ game.message_id # tasks[t].m
          THEN Upd(heap, games, Done(t))
          ELSE Upd(heap, games, Go(t, "slots_h"))
  /\ UNCHANGED <<balance, msgs, slots_game>>
  /\ SlotsFrame

\* The message m after delete_message.
deleted(m) == [msgs EXCEPT ![m].screen = "deleted"]

\* slots.py 109
spin_refused(bal, bet_size) == bal < bet_size

\* slots_button_handler after its query.answer() up to the next await that is
\* followed by a write (slots.py 88-114, 146-158).  A delete_message of a
\* message that is already deleted raises and ends the handler.
slots_button_handler(t) ==
  /\ tasks[t].pc = "slots_h"
  /\ LET u == tasks[t].u
         m == tasks[t].m
         d == tasks[t].d
         game == slots_game[u]
         bal == balance[u]
     IN IF game = NoSlots \/ game.message_id # m
          THEN /\ Upd(heap, games, Done(t))
               /\ UNCHANGED <<msgs, slots_game>>
        ELSE IF d = "slots_cancel"
          THEN /\ slots_game' = [slots_game EXCEPT ![u] = NoSlots]
               /\ msgs' = deleted(m)
               /\ Upd(heap, games, Done(t))
        ELSE IF d = "slots_spin"
          THEN IF spin_refused(bal, game.bet_size) \/ msgs[m].screen = "deleted"
                 THEN /\ Upd(heap, games, Done(t))
                      /\ UNCHANGED <<msgs, slots_game>>
                 ELSE /\ msgs' = deleted(m)
                      /\ Upd(heap, games,
                             [tasks EXCEPT ![t].pc = "slots_dice",
                                           ![t].balance = bal,
                                           ![t].bet_size = game.bet_size])
                      /\ UNCHANGED slots_game
        ELSE /\ slots_game' = [slots_game EXCEPT
                                 ![u].bet_size = adjusted_bet(d, game.bet_size)]
             /\ Upd(heap, games, Done(t))
             /\ UNCHANGED msgs
  /\ UNCHANGED balance
  /\ SlotsFrame

\* slots.py 120-126: the balance a spin writes, from the balance and the bet
\* size it read and the multiplier of the dice.
spin_balance(bal, bet_size, multiplier) ==
  IF multiplier > 0 THEN bal + (bet_size * multiplier) \div 4
  ELSE bal - bet_size

\* The dice message of a spin came back (slots.py 114-127).
slots_dice(t, val) ==
  /\ tasks[t].pc = "slots_dice"
  /\ LET new == spin_balance(tasks[t].balance, tasks[t].bet_size,
                             get_payout(get_combo_parts(val)))
     IN /\ balance' = [balance EXCEPT ![tasks[t].u] = new]
        /\ Upd(heap, games,
               [tasks EXCEPT ![t].pc = "slots_menu", ![t].balance = new,
                             ![t].dice_value = val])
  /\ UNCHANGED <<msgs, slots_game>>
  /\ SlotsFrame

\* slots.py 129-144: the new menu was sent; its id is written into the game
\* dict the handler holds, which a cancel has taken out of user_data.
slots_menu_sent(t) ==
  /\ tasks[t].pc = "slots_menu"
  /\ msgs' = Append(msgs, Message("slots", "slots", "menu", 0, 0))
  /\ slots_game' = IF slots_game[tasks[t].u] = NoSlots THEN slots_game
                   ELSE [slots_game EXCEPT ![tasks[t].u].message_id = Len(msgs) + 1]
  /\ Upd(heap, games, Done(t))
  /\ UNCHANGED balance
  /\ SlotsFrame

\* main.py 254-286: /tip <amount> @username, from its checks to its writes.
tip_command(u, recipient, amount) ==
  /\ amount > 0
  /\ recipient # u
  /\ amount <= balance[u]
  /\ balance' = [balance EXCEPT ![u] = balance[u] - amount,
                                ![recipient] = balance[recipient] + amount]
  /\ UNCHANGED <<heap, games, tasks, msgs, slots_game>>
  /\ SlotsFrame

\* The private chat of user u after /slots (slots.py 41-81), with the bet size
\* at `bet'; with `spinning' a spin of u has read the balance and the bet size
\* and waits for its dice message.
SlotsChat(u, bal, bet, spinning) ==
  /\ balance = [x \in Users |-> bal]
  /\ heap = <<>>
  /\ games = [k \in Keys |-> 0]
  /\ user_games = [x \in Users |-> NoKey]
  /\ pending = {}
  /\ last_games = [x \in Users |-> NoLast]
  /\ setup = [x \in Users |-> [y \in Variants |-> NoSetup]]
  /\ umode = [x \in Users |-> [y \in Variants |-> "none"]]
  /\ upoints = [x \in Users |-> [y \in Variants |-> 0]]
  /\ expecting = [x \in Users |-> FALSE]
  /\ msgs = <<[Message("slots", "slots", "menu", 0, 0) EXCEPT
                 !.screen = IF spinning THEN "deleted" ELSE "menu"]>>
  /\ tasks = [t \in 1..MaxTasks |->
                IF spinning /\ t = 1
                  THEN [IdleTask EXCEPT !.pc = "slots_dice", !.v = "slots", !.u = u,
                                        !.m = 1, !.d = "slots_spin",
                                        !.balance = bal, !.bet_size = bet]
                  ELSE IdleTask]
  /\ debited = <<>>
  /\ credited = <<>>
  /\ settled = <<>>
  /\ coin_setup = [x \in Users |-> NoCoinSetup]
  /\ coin_games = [x \in Users |-> NoCoinGame]
  /\ house_balance = 0
  /\ chat_type = "private"
  /\ slots_game = [x \in Users |-> IF x = u THEN [bet_size |-> bet, message_id |-> 1]
                                   ELSE NoSlots]

\* The values the dice of a spin shows under SpecSlots and SpecLedger: a loss
\* and two leading chocolates.
SpinValues == {2, 17}
TipAmounts == {Dollar}

SlotsClick ==
  \E t \in 1..MaxTasks, u \in Users, m \in 1..Len(msgs) :
    \E b \in Buttons(msgs[m]) : slots_click(t, u, m, b)

\* SpecSlots: the menu of /slots is used, one update at a time.
InitSlots ==
  /\ SlotsChat(Starter, SlotsBalance, Dollar, FALSE)
  /\ limits = [tasks |-> 1, msgs |-> Len(msgs) + MaxNewMsgSlots,
               matches |-> 0, typed |-> 0]

NextSlots ==
  \/ SlotsClick
  \/ \E t \in 1..MaxTasks :
       \/ slots_wrapper(t)
       \/ slots_button_handler(t)
       \/ \E val \in SpinValues : slots_dice(t, val)
       \/ slots_menu_sent(t)

SpecSlots == InitSlots /\ [][NextSlots]_vars

\* SpecLedger: the same, while the users tip each other.
InitLedger ==
  /\ SlotsChat(Starter, SlotsBalance, Dollar, FALSE)
  /\ limits = [tasks |-> 1, msgs |-> Len(msgs) + MaxNewMsgLedger,
               matches |-> 0, typed |-> 0]

NextLedger ==
  \/ NextSlots
  \/ \E u \in Users, recipient \in Users, amount \in TipAmounts :
       tip_command(u, recipient, amount)

SpecLedger == InitLedger /\ [][NextLedger]_vars

\* SpecPayout: a spin in flight receives every value the dice can show.
InitPayout ==
  /\ \E bet \in {MinBet, Dollar, MaxBet} : SlotsChat(Starter, MaxBet, bet, TRUE)
  /\ limits = [tasks |-> 1, msgs |-> Len(msgs) + MaxNewMsgSlots,
               matches |-> 0, typed |-> 0]

NextPayout ==
  \E t \in 1..MaxTasks :
    \/ \E val \in 1..MaxSlotValue : slots_dice(t, val)
    \/ slots_menu_sent(t)

SpecPayout == InitPayout /\ [][NextPayout]_vars

\* ================================================================ claims
Registered(o) == \E k \in Keys : games[k] = o
Players(g) == {g.player1, g.player2} \ {Bot}
SessionOf(u) == IF user_games[u] = NoKey THEN 0 ELSE games[user_games[u]]
ReachedTarget(g) ==
  g.scores.player1 >= g.points_to_win \/ g.scores.player2 >= g.points_to_win
FullRound(g) ==
  /\ g.rolls_needed = (IF g.mode = "double" THEN 2 ELSE 1)
  /\ Len(g.rolls.player1) = g.rolls_needed
  /\ Len(g.rolls.player2) = g.rolls_needed
SameRound(g, h) ==
  /\ g.rolls = h.rolls
  /\ g.roll_count = h.roll_count
  /\ g.scores = h.scores
  /\ g.current_player = h.current_player
  /\ g.round_number = h.round_number

\* C2: with the updates processed one at a time, every session is settled
\* exactly once: the settlement runs in the evaluation that finds a score at
\* points_to_win and only there, the credit is applied in that step and never
\* again, the stake debited at the start is never touched again, the session
\* leaves the registry only settled, and after the settlement no outcome is
\* appended to it.
C2_SettledOnce ==
  [][\A o \in DOMAIN settled :
       /\ settled'[o] \in {settled[o], settled[o] + 1}
       /\ settled'[o] <= 1
       /\ settled'[o] # settled[o] => ReachedTarget(heap[o])
       /\ (\E t \in Busy : /\ tasks[t].pc = "eval"
                           /\ tasks[t].o = o
                           /\ tasks'[t] # tasks[t]
                           /\ ReachedTarget(heap[o])) => settled'[o] = 1
       /\ credited'[o] # credited[o] => settled[o] = 0 /\ settled'[o] = 1
       /\ debited'[o] = debited[o]
       /\ (Registered(o) /\ ~(\E k \in Keys : games'[k] = o)) => settled[o] = 1
       /\ settled[o] = 1 => heap'[o].rolls = heap[o].rolls \/ heap'[o] = NoGame
    ]_vars

\* A settled and removed session whose winner was credited, and a throw on one
\* of its prompts being handled.
C2_Witness ==
  \E o \in DOMAIN settled :
    /\ settled[o] = 1
    /\ credited[o] > 0
    /\ ~Registered(o)
    /\ \E t \in Busy : /\ tasks[t].pc = "h"
                       /\ tasks[t].d = "throw"
                       /\ msgs[tasks[t].m].by = o

\* C4: for every settled session the stakes debited at its start equal the
\* amount credited to the winner plus an amount (zero or more) the house keeps.
C4_Conservation ==
  \A o \in DOMAIN settled :
    settled[o] >= 1 =>
      \E retained \in 0..debited[o] : debited[o] = credited[o] + retained

\* C5: a throw clicked on a message that is not the session's stored
\* message_id, dispatched through with_game_ownership_check, leaves every field
\* of the caller's session as it was.
C5_StaleThrowChangesNothing ==
  [][\A t \in 1..MaxTasks :
       (tasks[t].pc = "idle" /\ tasks'[t].pc = "h" /\ tasks'[t].d = "throw") =>
         LET o == SessionOf(tasks'[t].u)
         IN (o # 0 /\ tasks'[t].m # heap[o].message_id) => heap'[o] = heap[o]
    ]_vars

\* C6: once a throw clicked on prompt M was accepted and the session has sent
\* a later prompt, a throw clicked on M again appends no outcome.
C6_DuplicateThrowIgnored ==
  [][\A t \in 1..MaxTasks :
       LET m == tasks[t].m
       IN (tasks[t].pc = "dice" /\ msgs'[m].hits > msgs[m].hits) =>
            ~ /\ msgs[m].hits >= 1
              /\ msgs[m].by = tasks[t].o
              /\ \E m2 \in (m + 1)..Len(msgs) :
                   msgs[m2].kind = "throw" /\ msgs[m2].by = tasks[t].o
    ]_vars

\* C7: in every state in which no update is being handled, each registered
\* session has the pointer of each of its human players on its key, and each
\* pointer leads to a registered session its owner plays in.
C7_RegistryConsistent ==
  Busy = {} =>
    /\ \A k \in Keys :
         games[k] # 0 => \A p \in Players(heap[games[k]]) : user_games[p] = k
    /\ \A u \in Users :
         user_games[u] # NoKey =>
           /\ games[user_games[u]] # 0
           /\ u \in Players(heap[games[user_games[u]]])

\* C8: whenever a score of a session is incremented, and whenever a session
\* is settled, both slots hold exactly rolls_needed outcomes (2 in double mode,
\* 1 otherwise).
C8_ScoredOnFullRound ==
  [][\A o \in DOMAIN heap :
       /\ (heap'[o] # NoGame /\ heap'[o].scores # heap[o].scores) =>
            FullRound(heap'[o])
       /\ settled'[o] # settled[o] => FullRound(heap[o])
    ]_vars

\* C9: no score ever exceeds points_to_win; between two updates every
\* registered session has both scores below points_to_win; and when a match
\* is settled exactly one slot holds points_to_win and the credit goes to that
\* slot (none if it is the bot).
C9_EndsAtTarget ==
  /\ \A o \in DOMAIN heap :
       /\ heap[o].scores.player1 <= heap[o].points_to_win
       /\ heap[o].scores.player2 <= heap[o].points_to_win
  /\ Busy = {} =>
       \A k \in Keys :
         games[k] # 0 => /\ heap[games[k]].scores.player1 < heap[games[k]].points_to_win
                         /\ heap[games[k]].scores.player2 < heap[games[k]].points_to_win
  /\ \A t \in Busy :
       tasks[t].pc = "final" =>
         LET g == heap[tasks[t].o]
         IN \E s \in Slots :
              /\ g.scores[s] = g.points_to_win
              /\ g.scores[Other(s)] < g.points_to_win
              /\ credited[tasks[t].o] > 0 <=> g[s] # Bot

\* C10: a throw by a player of the session who is not current_player, or with
\* a round tag other than round_number, or when a score has reached
\* points_to_win, ends the handler and leaves rolls, roll_count, scores,
\* current_player and round_number of the session unchanged.
C10_RejectedThrowKeepsRound ==
  [][\A t \in 1..MaxTasks :
       (tasks[t].pc = "h" /\ tasks[t].d = "throw" /\ tasks'[t] # tasks[t]) =>
         LET u == tasks[t].u
             o == SessionOf(u)
         IN (/\ o # 0
             /\ u \in Players(heap[o])
             /\ \/ heap[o][heap[o].current_player] # u
                \/ tasks[t].n # heap[o].round_number
                \/ ReachedTarget(heap[o])) =>
              /\ tasks'[t].pc = "idle"
              /\ SameRound(heap[o], heap'[o])
    ]_vars

\* Two throws have passed the checks and the first of them has settled the
\* match: the handler of a throw on the settled session is at its checks.
C10_Witness ==
  \E t \in Busy :
    /\ tasks[t].pc = "h"
    /\ tasks[t].d = "throw"
    /\ ~in_setup(t)
    /\ SessionOf(tasks[t].u) # 0
    /\ tasks[t].u \in Players(heap[SessionOf(tasks[t].u)])
    /\ ReachedTarget(heap[SessionOf(tasks[t].u)])

\* C1: no user is a player of more than one session of the 'games' registry.
C1_OneSessionPerUser ==
  \A u \in Users :
    Cardinality({k \in Keys : games[k] # 0 /\ u \in Players(heap[games[k]])}) <= 1

\* C3: with throws in flight at once, no slot's roll_count exceeds
\* rolls_needed and no session is settled more than once.
C3_ThrowsSerialized ==
  \A o \in DOMAIN heap :
    /\ heap[o].roll_count.player1 <= heap[o].rolls_needed
    /\ heap[o].roll_count.player2 <= heap[o].rolls_needed
    /\ settled[o] <= 1

\* C11: the step that registers a session against the bot debits its player
\* the wager of the setup and nobody else, registers the session under the
\* player's key and pointer with scores 0-0, empty buffers, round 1 and
\* player1 to move, and leaves last_games alone; a balance goes down only in a
\* step that registers a session, the recorded stake never changes, and a
\* last_games entry changes only when a settled session of its owner is
\* completed.
C11_BotMatchStart ==
  [][/\ (Len(heap') > Len(heap) /\ heap'[Len(heap')].player2 = Bot) =>
          LET o == Len(heap')
              g == heap'[o]
              u == g.player1
          IN /\ u \in Users
             /\ \E t \in 1..MaxTasks :
                  /\ tasks'[t].pc = "start_sent"
                  /\ tasks'[t].o = o
                  /\ g.bet = setup'[u][tasks'[t].v].bet
             /\ balance' = [balance EXCEPT ![u] = @ - g.bet]
             /\ debited'[o] = g.bet
             /\ games'[<<u, Bot>>] = o
             /\ user_games'[u] = <<u, Bot>>
             /\ g.scores = [s \in Slots |-> 0]
             /\ g.rolls = [s \in Slots |-> <<>>]
             /\ g.roll_count = [s \in Slots |-> 0]
             /\ g.round_number = 1
             /\ g.current_player = "player1"
             /\ last_games' = last_games
     /\ \A u \in Users : balance'[u] < balance[u] => Len(heap') > Len(heap)
     /\ \A o \in DOMAIN debited : debited'[o] = debited[o]
     /\ \A u \in Users :
          last_games'[u] # last_games[u] =>
            \E t \in Busy : /\ tasks[t].pc = "final"
                            /\ u \in Players(heap[tasks[t].o])
                            /\ settled[tasks[t].o] >= 1
    ]_vars

\* A session against the bot has just been registered for a user who has no
\* last_games entry; its first prompt is still to be sent.
C11_Witness ==
  \E t \in Busy :
    /\ tasks[t].pc = "start_sent"
    /\ heap[tasks[t].o].player2 = Bot
    /\ last_games[tasks[t].u] = NoLast
    /\ balance[tasks[t].u] = InitBalance - heap[tasks[t].o].bet

\* C12: the step that settles a session finds a slot at points_to_win with a
\* score not below the other's; if that slot is a human, the balance of that
\* participant grows by wager * 1.92 + wager and no other balance changes; if
\* it is the bot, no balance changes.
C12_SettlementAmounts ==
  [][\A o \in DOMAIN settled :
       settled'[o] # settled[o] =>
         LET g == heap[o]
         IN \E s \in Slots :
              /\ g.scores[s] >= g.points_to_win
              /\ g.scores[s] >= g.scores[Other(s)]
              /\ balance' = IF g[s] \in Users
                              THEN [balance EXCEPT ![g[s]] =
                                      @ + (g.bet * 192) \div 100 + g.bet]
                              ELSE balance
    ]_vars

\* A session won by a human has been settled and its final message is to be
\* sent.
C12_Witness ==
  \E t \in Busy :
    /\ tasks[t].pc = "final"
    /\ credited[tasks[t].o] > 0
    /\ heap[tasks[t].o][winner_of(heap[tasks[t].o])] \in Users

\* C14: when no update is being handled, every registered session against the
\* bot has current_player = player1.
C14_BotNeverWaits ==
  Busy = {} =>
    \A k \in Keys :
      (games[k] # 0 /\ heap[games[k]].player2 = Bot) =>
        heap[games[k]].current_player = "player1"

\* C15: a throw by the initiator of an accepted challenge, clicked on the
\* session's current prompt with the current round number while the session
\* awaits player1, is accepted (the handler goes on to send the dice).
C15_InitiatorThrowAccepted ==
  [][\A t \in 1..MaxTasks :
       (tasks[t].pc = "h" /\ tasks[t].d = "throw" /\ tasks'[t] # tasks[t]) =>
         LET u == tasks[t].u
             o == SessionOf(u)
         IN (/\ o # 0
             /\ heap[o].player1 = u
             /\ heap[o].player2 \in Users
             /\ heap[o].current_player = "player1"
             /\ msgs[tasks[t].m].kind = "throw"
             /\ msgs[tasks[t].m].by = o
             /\ tasks[t].m = heap[o].message_id
             /\ tasks[t].n = heap[o].round_number
             /\ ~ReachedTarget(heap[o])) => tasks'[t].pc = "dice"
    ]_vars

\* C16: a challenge that enters pending_challenges gets an id that no pending
\* challenge has and that no challenge posted or being posted in the chat has
\* carried.
C16_FreshChallengeId ==
  [][\A c \in pending' \ pending :
       /\ \A x \in pending : x.id # c.id
       /\ \A m \in 1..Len(msgs) : msgs[m].kind = "challenge" => msgs[m].tag # c.id
       /\ \A t \in Busy : tasks[t].pc \in {"text_sent", "ch_sent"} =>
                            tasks[t].tag # c.id
    ]_vars

\* C17: the step that completes a decline removes the challenge and changes no
\* balance; when an accept clicked on the message of a declined challenge is
\* delivered, no pending challenge has its id; and the handler of such an accept
\* registers no session, debits nobody and ends there.
C17_DeclinedStaysDeclined ==
  [][\A t \in 1..MaxTasks :
       /\ (tasks[t].pc = "decline_sent" /\ tasks'[t].pc = "idle") =>
            /\ balance' = balance
            /\ \A x \in pending' : x.id # tasks[t].n
       /\ (/\ tasks[t].pc = "idle"
           /\ tasks'[t].pc = "h"
           /\ tasks'[t].d = "accept"
           /\ msgs[tasks'[t].m].screen = "declined") =>
            \A x \in pending : x.id # tasks'[t].n
       /\ (/\ tasks[t].pc = "h"
           /\ tasks[t].d = "accept"
           /\ tasks'[t] # tasks[t]
           /\ msgs[tasks[t].m].screen = "declined") =>
            /\ Len(heap') = Len(heap)
            /\ user_games' = user_games
            /\ balance' = balance
            /\ tasks'[t].pc = "idle"
    ]_vars

C19_BusyAcceptChangesNothing ==
  [][\A t \in 1..MaxTasks :
       LET s == IF tasks[t].pc = "idle" THEN tasks'[t] ELSE tasks[t]
       IN (/\ tasks'[t] # tasks[t]
           /\ tasks[t].pc \in {"idle", "h"}
           /\ s.pc = "h"
           /\ s.d = "accept"
           /\ \E c \in pending :
                /\ c.id = s.n
                /\ user_games[c.initiator] # NoKey \/ user_games[s.u] # NoKey) =>
            /\ balance' = balance
            /\ Len(heap') = Len(heap)
            /\ games' = games
            /\ user_games' = user_games
            /\ \A o \in DOMAIN heap : Registered(o) => heap'[o] = heap[o]
    ]_vars

\* C20: the step in which an accept registers a session takes a pending
\* challenge whose challenged participant is the caller, debits its wager from
\* the initiator and from the caller and from nobody else, and registers one
\* session under the key and the pointers of both, with player1 the initiator,
\* player2 the caller, the challenge's mode, points_to_win and wager, scores
\* 0-0, empty buffers, round 1 and player1 to move; the step that ends the
\* accept leaves no challenge with that id pending; a recorded stake never
\* changes.
C20_AcceptRegisters ==
  [][/\ \A t \in 1..MaxTasks :
          /\ (tasks[t].pc = "h" /\ tasks'[t].pc = "accept_sent") =>
               \E c \in pending :
                 LET o == Len(heap')
                     g == heap'[o]
                     u == tasks[t].u
                 IN /\ c.id = tasks[t].n
                    /\ c.challenged = u
                    /\ Len(heap') = Len(heap) + 1
                    /\ g.player1 = c.initiator
                    /\ g.player2 = u
                    /\ g.mode = c.mode
                    /\ g.points_to_win = c.points_to_win
                    /\ g.bet = c.bet
                    /\ g.scores = [s \in Slots |-> 0]
                    /\ g.rolls = [s \in Slots |-> <<>>]
                    /\ g.roll_count = [s \in Slots |-> 0]
                    /\ g.round_number = 1
                    /\ g.current_player = "player1"
                    /\ games' = [games EXCEPT ![<<c.initiator, u>>] = o]
                    /\ user_games' = [user_games EXCEPT
                                        ![c.initiator] = <<c.initiator, u>>,
                                        ![u] = <<c.initiator, u>>]
                    /\ balance' = [x \in Users |->
                                     IF x \in {c.initiator, u}
                                       THEN balance[x] - c.bet ELSE balance[x]]
                    /\ debited'[o] = 2 * c.bet
          /\ (tasks[t].pc = "accept_sent" /\ tasks'[t].pc = "idle") =>
               \A x \in pending' : x.id # tasks[t].n
     /\ (Len(heap') > Len(heap) /\ heap'[Len(heap')].player2 \in Users) =>
          \E t \in 1..MaxTasks : tasks[t].pc = "h" /\ tasks'[t].pc = "accept_sent"
     /\ \A o \in DOMAIN debited : debited'[o] = debited[o]
    ]_vars

\* An accepted challenge: its session is registered and both players are
\* debited, the first prompt is still to be sent.
C20_Witness ==
  \E t \in Busy :
    /\ tasks[t].pc = "accept_sent"
    /\ Registered(tasks[t].o)
    /\ heap[tasks[t].o].player2 = tasks[t].u
    /\ \A u \in Players(heap[tasks[t].o]) :
         balance[u] = InitBalance - heap[tasks[t].o].bet

\* C13 (coin): the step that registers a coin match against the bot debits its
\* wager from the player, and the step that settles the flip of a registered
\* match leaves the player with the balance before the match plus 1.92 x wager
\* on a win and minus the wager on a loss.
C13_CoinEscrowAndPayout ==
  [][\A u \in Users :
       /\ (coin_games'[u] # coin_games[u] /\ coin_games'[u] # NoCoinGame) =>
            balance'[u] = balance[u] - coin_games'[u].bet
       /\ \A t \in 1..MaxTasks :
            (/\ tasks[t].pc = "coin_sleep"
             /\ tasks'[t].pc = "coin_sent"
             /\ tasks[t].u = u
             /\ coin_games[u] # NoCoinGame) =>
              LET w == coin_games[u].bet
                  before == coin_games[u].before
              IN balance'[u] \in {before + (w * PrizePercent) \div 100, before - w}
    ]_vars

\* C21: a typed proposal whose opponent is the caller, has a registered
\* session or has a balance below the wager is refused: from its arrival to
\* the end of its handler pending_challenges stays as it was and no challenge
\* message is posted.
C21_ProposeValidation ==
  [][\A t \in 1..MaxTasks :
       /\ (tasks[t].pc = "idle" /\ tasks'[t].pc \in {"text_sent", "text_refused"}) =>
            LET u == tasks'[t].u
                target == tasks'[t].n
            IN (\/ target = u
                \/ user_games[target] # NoKey
                \/ balance[target] < setup[u][tasks'[t].v].bet) =>
                 /\ tasks'[t].pc = "text_refused"
                 /\ pending' = pending
       /\ (tasks[t].pc = "text_refused" /\ tasks'[t] # tasks[t]) =>
            /\ tasks'[t].pc = "idle"
            /\ pending' = pending
            /\ msgs' = msgs
    ]_vars

\* A proposal to another user who is in no session and cannot pay the wager
\* is being refused.
C21_Witness ==
  \E t \in Busy :
    /\ tasks[t].pc = "text_refused"
    /\ tasks[t].n # tasks[t].u
    /\ user_games[tasks[t].n] = NoKey
    /\ balance[tasks[t].n] < setup[tasks[t].u][tasks[t].v].bet
    /\ pending = {}
C30_RefusedCommandKeepsLedgers ==
  [][\A t \in 1..MaxTasks :
       (/\ tasks[t].pc = "idle"
        /\ tasks'[t].pc = "cmd_refused"
        /\ wrapper_passes(tasks'[t].args, balance[tasks'[t].u]))
         => /\ house_balance' = house_balance
            /\ balance' = balance]_vars

\* C23: a setup button (mode, points, confirm, cancel, play against the bot,
\* and the coin side, confirm, cancel and bot buttons) clicked by a caller who
\* is not the initiator of a setup attached to the clicked message changes
\* nothing: the setup states, the selected modes and points, the session and
\* challenge registries with the sessions they hold, and all balances stay as
\* they were, from the arrival of the click to the end of its handler.
C23_SetupOwnership ==
  [][\A t \in 1..MaxTasks :
       LET b == IF tasks[t].pc = "idle" THEN tasks'[t] ELSE tasks[t]
           owner == IF b.v = "coin"
                      THEN /\ coin_setup[b.u].initiator = b.u
                           /\ coin_setup[b.u].message_id = b.m
                      ELSE /\ setup[b.u][b.v].initiator = b.u
                           /\ setup[b.u][b.v].message_id = b.m
       IN (/\ tasks'[t] # tasks[t]
           /\ tasks[t].pc \in {"idle", "h"}
           /\ b.pc = "h"
           /\ b.d \in CommandData
           /\ ~owner)
            => /\ setup' = setup
               /\ coin_setup' = coin_setup
               /\ umode' = umode
               /\ upoints' = upoints
               /\ user_games' = user_games
               /\ coin_games' = coin_games
               /\ pending' = pending
               /\ balance' = balance
               /\ \A k \in Keys :
                    /\ (games[k] = 0) = (games'[k] = 0)
                    /\ games[k] # 0 => heap'[games'[k]] = heap[games[k]]]_vars

\* C24: the setup state does not outlive the negotiation: a user who is a
\* player of a registered session holds no setup state of either variant.
C24_NoSetupInSession ==
  \A u \in Users :
    (SessionOf(u) # 0 /\ u \in Players(heap[SessionOf(u)]))
      => \A v \in Variants : setup[u][v] = NoSetup

\* C25: "Play again" after a match against the bot, clicked by a user whose
\* balance is below the prior wager, debits nothing and registers no session,
\* and no "Play again" against the bot leaves a balance below zero.
C25_PlayAgainBotChecksBalance ==
  [][\A t \in 1..MaxTasks :
       (/\ tasks[t].pc = "h"
        /\ tasks[t].d = "play_again"
        /\ tasks'[t] # tasks[t]
        /\ last_games[tasks[t].u].opponent = Bot)
         => /\ balance[tasks[t].u] < last_games[tasks[t].u].bet
              => /\ balance' = balance
                 /\ user_games' = user_games
                 /\ games' = games
            /\ balance[tasks[t].u] >= 0 => balance'[tasks[t].u] >= 0]_vars

\* C26: "Play again" after a match against a human stores a pending challenge
\* only if the caller and the opponent each have a balance of at least the prior
\* wager and the opponent has no registered session.
C26_PlayAgainHumanValidates ==
  [][\A t \in 1..MaxTasks :
       (/\ tasks[t].pc = "pa_member"
        /\ tasks'[t] # tasks[t]
        /\ pending' # pending)
         => LET last == tasks[t].last
            IN /\ balance[tasks[t].u] >= last.bet
               /\ balance[last.opponent] >= last.bet
               /\ user_games[last.opponent] = NoKey]_vars

\* C27: "Double" validates with twice the wager of the finished match: when the
\* caller's balance (or, against a human, the opponent's) is below twice that
\* wager, no balance, last_games entry, pending challenge or registered session
\* changes and no new setup is made; when it succeeds, the new match, challenge
\* or coin setup carries twice the wager of the finished match.
C27_DoubleUsesTwiceTheWager ==
  [][\A t \in 1..MaxTasks :
       /\ (/\ tasks[t].pc = "h"
           /\ tasks[t].d = "double"
           /\ tasks'[t] # tasks[t]
           /\ last_games[tasks[t].u] # NoLast)
            => LET u == tasks[t].u
                   last == last_games[u]
                   short == \/ balance[u] < 2 * last.bet
                            \/ last.opponent # Bot /\ balance[last.opponent] < 2 * last.bet
               IN /\ last_games' = last_games
                  /\ short => /\ balance' = balance
                              /\ pending' = pending
                              /\ user_games' = user_games
                              /\ games' = games
                  /\ \A c \in pending' \ pending : c.bet = 2 * last.bet
                  /\ user_games'[u] # user_games[u]
                       => heap'[games'[user_games'[u]]].bet = 2 * last.bet
       /\ (/\ tasks[t].pc = "h"
           /\ tasks[t].d = "coin_double"
           /\ tasks'[t] # tasks[t])
            => LET u == tasks[t].u
                   prior == msgs[tasks[t].m].tag
               IN /\ balance' = balance
                  /\ last_games' = last_games
                  /\ pending' = pending
                  /\ coin_games' = coin_games
                  /\ balance[u] < 2 * prior => coin_setup' = coin_setup
                  /\ coin_setup'[u] # coin_setup[u] => coin_setup'[u].bet = 2 * prior]_vars

\* C28: when a match is completed, every human player of the session gets a
\* last_games entry with the session's mode, points_to_win and wager and the
\* other slot as opponent, in place of any earlier entry; the entries of other
\* users stay, and no other step writes last_games.
C28_LastGamesWrittenOnCompletion ==
  [][/\ \A t \in 1..MaxTasks :
          (tasks[t].pc = "final" /\ tasks'[t] # tasks[t])
            => LET g == heap[tasks[t].o]
               IN \A u \in Users :
                    last_games'[u] =
                      IF u = g.player1
                        THEN [opponent |-> g.player2, mode |-> g.mode,
                              points_to_win |-> g.points_to_win, bet |-> g.bet]
                      ELSE IF u = g.player2
                        THEN [opponent |-> g.player1, mode |-> g.mode,
                              points_to_win |-> g.points_to_win, bet |-> g.bet]
                      ELSE last_games[u]
     /\ last_games' # last_games
          => \E t \in 1..MaxTasks : tasks[t].pc = "final" /\ tasks'[t] # tasks[t]]_vars

\* A match between two users was completed and both have its summary.
C28_Witness ==
  \E u \in Users, w \in Users :
    /\ u # w
    /\ last_games[u].opponent = w
    /\ last_games[w].opponent = u
    /\ last_games[u].bet = last_games[w].bet
    /\ \E m \in 1..Len(msgs) : msgs[m].kind = "final"

\* C29: "Play again" or "Double" clicked by a user who already has a registered
\* session, and rejected (no session registered, no challenge stored), leaves
\* every setup state and the selected modes and points as they were, so that
\* the caller's throws are still taken by the in-game branch of the handler.
C29_RejectedRematchLeavesNoTrace ==
  [][\A t \in 1..MaxTasks :
       (/\ tasks[t].pc = "h"
        /\ tasks[t].d \in RematchData
        /\ tasks'[t] # tasks[t]
        /\ user_games[tasks[t].u] # NoKey
        /\ user_games' = user_games
        /\ pending' = pending)
         => /\ setup' = setup
            /\ umode' = umode
            /\ upoints' = upoints]_vars

\* C32: a session needs two outcomes per turn in double mode and one in normal
\* and crazy mode; when a slot's accepted throw leaves its roll_count below
\* rolls_needed, current_player is unchanged and a new prompt for the same
\* round is issued; when the roll_count has reached rolls_needed the turn
\* passes to the other slot or the round is evaluated.
C32_MultiOutcomeTurns ==
  [][\A t \in 1..MaxTasks :
       (/\ tasks[t].pc = (IF tasks[t].v = "dart" THEN "dice" ELSE "f_turn")
        /\ tasks'[t].pc \notin {tasks[t].pc, "idle"})
         => LET o == tasks[t].o
                pk == tasks[t].pk
                g == heap[o]
                h == heap'[o]
            IN /\ h.rolls_needed = (IF h.mode = "double" THEN 2 ELSE 1)
               /\ (h.roll_count[pk] < h.rolls_needed) <=> (tasks'[t].pc = "again")
               /\ tasks'[t].pc = "again"
                    => /\ h.current_player = g.current_player
                       /\ h.mode = "double"
                       /\ tasks'[t].tag = h.round_number
               /\ tasks'[t].pc # "again"
                    => \/ h.current_player = Other(pk)
                       \/ tasks'[t].pc \in {"eval", "incomplete"}]_vars

\* A double-mode session in which player1 has thrown once, still holds the
\* turn and has been sent the prompt for the second throw.
C32_Witness ==
  \E u \in Users :
    /\ SessionOf(u) # 0
    /\ LET g == heap[SessionOf(u)]
       IN /\ g.mode = "double"
          /\ g.roll_count.player1 = 1
          /\ g.roll_count.player2 = 0
          /\ g.current_player = "player1"
          /\ g.message_id = Len(msgs)
          /\ msgs[Len(msgs)].kind = "throw"
          /\ \A t \in 1..MaxTasks : tasks[t].pc = "idle"

\* The point the darts guide promises for a round: the slot it names, or
\* "none" when the guide names no winner.
DartGuidePoint(mode, r1, r2) ==
  IF mode = "normal"
    THEN (IF r1[1] > r2[1] THEN "player1"
          ELSE IF r2[1] > r1[1] THEN "player2" ELSE "none")
  ELSE IF mode = "double"
    THEN (IF r1[1] + r1[2] > r2[1] + r2[2] THEN "player1"
          ELSE IF r2[1] + r2[2] > r1[1] + r1[2] THEN "player2" ELSE "none")
  ELSE (IF r1[1] < r2[1] THEN "player1"
        ELSE IF r2[1] < r1[1] THEN "player2" ELSE "none")

\* The point the football guide promises for a round.
FootballGuidePoint(mode, r1, r2) ==
  IF mode = "normal"
    THEN (IF r1[1] > r2[1] THEN "player1"
          ELSE IF r2[1] > r1[1] THEN "player2" ELSE "none")
  ELSE IF mode = "double"
    THEN (IF r1[1] + r1[2] > r2[1] + r2[2] THEN "player1"
          ELSE IF r2[1] + r2[2] > r1[1] + r1[2] THEN "player2" ELSE "none")
  ELSE (IF r1[1] = 1 /\ r2[1] # 1 THEN "player1"
        ELSE IF r2[1] = 1 /\ r1[1] # 1 THEN "player2" ELSE "none")

\* The scores after the point went to slot w.
ScoresWith(sc, w) == IF w = "none" THEN sc ELSE [sc EXCEPT ![w] = @ + 1]

\* A task whose step has just scored a round of variant v.
ScoresRound(t, v) ==
  /\ tasks[t].v = v
  /\ tasks[t].pc \in {"botdice", "f_eval"}
  /\ tasks'[t].pc = "eval"

\* C34: a darts round gives its point as the mode guide says, for all values
\* 1..6 of the dice: in normal mode to the higher throw, in double mode to the
\* higher sum of two throws, in crazy mode to the lower throw, and to nobody
\* when the two are equal.
C34_DartsScoringRule ==
  [][\A t \in 1..MaxTasks :
       ScoresRound(t, "dart")
         => LET g == heap[tasks[t].o]
                h == heap'[tasks'[t].o]
            IN /\ Len(h.rolls.player1) = h.rolls_needed
               /\ Len(h.rolls.player2) = h.rolls_needed
               /\ h.scores = ScoresWith(g.scores,
                      DartGuidePoint(h.mode, h.rolls.player1, h.rolls.player2))]_vars

\* A crazy round that the lower throw has won.
C34_Witness ==
  \E t \in 1..MaxTasks :
    /\ tasks[t].pc = "eval"
    /\ tasks[t].v = "dart"
    /\ LET h == heap[tasks[t].o]
       IN /\ h.mode = "crazy"
          /\ h.rolls.player1[1] = 2
          /\ h.rolls.player2[1] = 5
          /\ h.scores.player1 = 1
          /\ h.scores.player2 = 0

\* C35: a football round gives its point as the mode guide says: in normal
\* mode to the highest number, in double mode to the highest sum, in crazy
\* mode to the slot that rolls 1.
C35_FootballScoringRule ==
  [][\A t \in 1..MaxTasks :
       ScoresRound(t, "football")
         => LET g == heap[tasks[t].o]
                h == heap'[tasks'[t].o]
            IN h.scores = ScoresWith(g.scores,
                   FootballGuidePoint(h.mode, h.rolls.player1, h.rolls.player2))]_vars

\* The scores the code computes for the two slots of a round.
ComputedScores(v, h) ==
  IF v = "dart" THEN dart_round_scores(h)
  ELSE <<calculate_effective_score(h.rolls.player1, h.mode),
         calculate_effective_score(h.rolls.player2, h.mode)>>

\* C33: an evaluation that does not end the match raises at most one score,
\* by exactly 1, and none when the computed scores are equal; it then clears
\* both roll buffers and roll counts, raises round_number by 1, gives the turn
\* to player1 and changes no balance.
C33_RoundEvaluation ==
  [][\A t \in 1..MaxTasks :
       /\ (tasks[t].pc \in {"botdice", "f_eval"} /\ tasks'[t].pc = "eval")
            => LET g == heap[tasks[t].o]
                   h == heap'[tasks'[t].o]
                   cs == ComputedScores(tasks[t].v, h)
                   d1 == h.scores.player1 - g.scores.player1
                   d2 == h.scores.player2 - g.scores.player2
               IN /\ d1 \in {0, 1} /\ d2 \in {0, 1} /\ d1 + d2 <= 1
                  /\ cs[1] = cs[2] => d1 + d2 = 0
                  /\ balance' = balance
       /\ (tasks[t].pc = "eval" /\ tasks'[t].pc = "newround")
            => LET g == heap[tasks[t].o]
                   h == heap'[tasks'[t].o]
               IN /\ ~match_over(g)
                  /\ h.scores = g.scores
                  /\ h.rolls = [s \in Slots |-> <<>>]
                  /\ h.roll_count = [s \in Slots |-> 0]
                  /\ h.round_number = g.round_number + 1
                  /\ h.current_player = "player1"
                  /\ balance' = balance]_vars

\* A second round opened after the bot, who had the turn, won the first point.
C33_Witness ==
  \E t \in 1..MaxTasks :
    /\ tasks[t].pc = "newround"
    /\ LET h == heap[tasks[t].o]
       IN /\ h.round_number = 2
          /\ h.scores.player1 = 0
          /\ h.scores.player2 = 1
          /\ h.rolls.player1 = <<>>
          /\ h.rolls.player2 = <<>>
          /\ h.current_player = "player1"

\* C36: no balance is ever negative, whatever commands, setup clicks,
\* accepts, play-again and double clicks, throws, coin flips and tips were
\* handled.
C36_BalancesNeverNegative == \A u \in Users : balance[u] >= 0

\* The variant whose handler sent the first message of session o.
CreatedBy(o) ==
  msgs[CHOOSE m \in 1..Len(msgs) :
         msgs[m].by = o /\ \A k \in 1..(m - 1) : msgs[k].by # o].v

\* C37: a session belongs to one variant: only a throw of the variant that
\* created the session appends an outcome to it, and only that variant's
\* evaluation scores it.
C37_SessionOfOneVariant ==
  [][\A t \in 1..MaxTasks :
       /\ (/\ tasks[t].pc = "dice"
           /\ heap'[tasks[t].o].rolls # heap[tasks[t].o].rolls)
            => tasks[t].v = CreatedBy(tasks[t].o)
       /\ (tasks[t].pc \notin {"eval", "idle"} /\ tasks'[t].pc = "eval")
            => tasks[t].v = CreatedBy(tasks[t].o)]_vars

\* C38: a participant is in at most one active match of the chat across the
\* game variants: nobody has an entry in 'coin_games' and an entry in
\* 'user_games' at once.
C38_OneMatchAcrossVariants ==
  \A u \in Users : ~(coin_games[u] # NoCoinGame /\ user_games[u] # NoKey)

\* The multiplier the displayed table gives a triple: that of the best row
\* the triple matches, 0 when it matches none.
TableMultiplier(s) ==
  LET xs == {r.x : r \in {r \in ComboTable :
                            \A i \in 1..3 : r.p[i] \in {"any", s[i]}}}
  IN IF xs = {} THEN 0 ELSE CHOOSE x \in xs : \A y \in xs : y <= x

AllTriples ==
  {<<a, b, c>> : a \in {Symbols[i] : i \in 1..4}, b \in {Symbols[i] : i \in 1..4},
                 c \in {Symbols[i] : i \in 1..4}}

\* C39: for every dice value 1..64 a spin pays by the multiplier the
\* displayed combination table gives the symbol triple of the value (777 = 20,
\* three equal fruits = 7, 77? = 2, ?77 = 1, two leading chocolates = 0.5, two
\* leading lemons or grapes = 0.25, anything else = 0, the bet is lost), and
\* the 64 values stand one-to-one for the 64 triples.
C39_PayoutTable ==
  [][\A t \in 1..MaxTasks :
       (tasks[t].pc = "slots_dice" /\ tasks'[t].pc = "slots_menu")
         => LET val == tasks'[t].dice_value
                s == get_combo_parts(val)
                x == TableMultiplier(s)
                bet == tasks[t].bet_size
            IN /\ balance'[tasks[t].u] - tasks[t].balance
                    = (IF x > 0 THEN (bet * x) \div 4 ELSE 0 - bet)
               /\ s \in AllTriples
               /\ \A w \in 1..MaxSlotValue : w # val => get_combo_parts(w) # s
               /\ {get_combo_parts(w) : w \in 1..MaxSlotValue} = AllTriples]_vars

\* A spin of bet 1.00 that has shown 777 and has paid 20.00.
C39_Witness ==
  \E t \in 1..MaxTasks :
    /\ tasks[t].pc = "slots_menu"
    /\ tasks[t].dice_value = MaxSlotValue
    /\ tasks[t].bet_size = Dollar
    /\ balance[tasks[t].u] = MaxBet + 20 * Dollar

\* C40: the bet size stays within [0.25, 50] whatever adjustments are made
\* from 1.00; a spin with a balance below the bet size is refused and changes
\* no balance; a losing spin lowers the balance by exactly the bet size; with
\* one update handled at a time no balance becomes negative.
C40_BetBounds ==
  /\ [](\A u \in Users :
          /\ slots_game[u] # NoSlots
               => slots_game[u].bet_size \in MinBet..MaxBet
          /\ balance[u] >= 0)
  /\ [][\A t \in 1..MaxTasks :
          LET u == tasks[t].u
          IN /\ (/\ tasks[t].pc = "slots_h"
                 /\ tasks[t].d = "slots_spin"
                 /\ balance[u] < slots_game[u].bet_size)
                  => balance' = balance /\ tasks'[t].pc = "idle"
             /\ (/\ tasks[t].pc = "slots_dice"
                 /\ tasks'[t].pc = "slots_menu"
                 /\ TableMultiplier(get_combo_parts(tasks'[t].dice_value)) = 0)
                  => balance'[u] = balance[u] - slots_game[u].bet_size]_vars

\* The bet was raised to 1.25 and a spin of it was lost.
C40_Witness ==
  \E t \in 1..MaxTasks :
    /\ tasks[t].pc = "slots_menu"
    /\ tasks[t].dice_value = 2
    /\ slots_game[tasks[t].u].bet_size = Dollar + MinBet
    /\ balance[tasks[t].u] = SlotsBalance - (Dollar + MinBet)

\* C31: a spin changes the balance by its own delta: the balance after its
\* write is the balance before the write plus what the spin won or lost, so
\* that a tip handled between its read and its write is not lost.
C31_NoLostUpdate ==
  [][\A t \in 1..MaxTasks :
       (tasks[t].pc = "slots_dice" /\ tasks'[t].pc = "slots_menu")
         => balance'[tasks[t].u]
              = balance[tasks[t].u] + (tasks'[t].balance - tasks[t].balance)]_vars

====
